---- MODULE Spec2Model ----
(***************************************************************************)
(* The managed-object heap of the aurum virtual machine: objects with an   *)
(* 8-byte header, the three tiers of handles, the stack of scopes, and the *)
(* per-kind constructors and inspectors.  The mutator is single-threaded;  *)
(* its call stack is modelled explicitly, because with_scope and with_pin  *)
(* attach their cleanup (scopeguard's defer!) to call frames, which run on *)
(* normal return and on unwinding alike.                                   *)
(***************************************************************************)
EXTENDS Integers, Sequences, FiniteSets, TLC

VARIABLES
    pc,                  \* position inside Heap::with_new
    objects,             \* the allocated objects, by address
    interned_null,       \* Heap::interned_null
    interned_variables,  \* Heap::interned_variables, indexed 0 .. 15
    scopes,              \* Heap::scopes, the stack of registered slot arrays
    cells,               \* the slot arrays of the open scopes, by scope pointer
    stack,               \* the mutator's call stack of with_scope / with_pin frames
    panicking,           \* TRUE while a panic unwinds the call stack
    profile,             \* which family of mutators this behaviour explores
    returned,            \* the last call that returned a value, and the value
    cache,               \* a FreeCache value built by insert calls alone
    inserted,            \* the De Bruijn indices inserted into cache so far
    ref_cell             \* the UnsafeRefCell of Heap::scopes: build, borrow flag, live guards

vars == <<pc, objects, interned_null, interned_variables, scopes, cells, stack, panicking, profile,
          returned, cache, inserted, ref_cell>>

----------------------------------------------------------------------------
(* Bounds of the model.  The mutators explored come in two families: one  *)
(* nests scopes and pins deeply over few slots and no allocation of its    *)
(* own, the other builds objects in the slots of a shallow nesting.        *)

\* with_new_*_scope calls nested in one another, per family.
NestingScopes == 3
ObjectsScopes == 1
\* with_pin calls nested in one another, per family.
NestingPins == 3
ObjectsPins == 1
\* Slots of one scope (N of an array scope, size of a boxed scope), per family.
NestingSlots == 1
ObjectsSlots == 2
\* Objects the mutator allocates after heap setup, per family.
NestingAlloc == 0
ObjectsAlloc == 1
\* Most arguments of one application.
MaxArgs == 2
\* Slots of the scope, and objects allocated after heap setup, of the mutator
\* that calls the constructors over and over.
AllocSlots == 2
UnitAlloc == 2

Profiles == {"nesting", "objects"}
MaxScopes == IF profile = "nesting" THEN NestingScopes ELSE ObjectsScopes
MaxPins == IF profile = "nesting" THEN NestingPins ELSE ObjectsPins
MaxSlots == IF profile = "nesting" THEN NestingSlots ELSE ObjectsSlots
MaxAlloc ==
    IF profile = "nesting" THEN NestingAlloc
    ELSE IF profile = "alloc" THEN UnitAlloc
    ELSE ObjectsAlloc

----------------------------------------------------------------------------
(* Machine integers.  A u32 or usize value is the record of its two        *)
(* 16-bit-based limbs, value = hi * 2^16 + lo with 0 <= lo < 2^16: a u32   *)
(* has hi < 2^16, a usize may have a larger hi.                            *)

LimbBase == 2 ^ 16

Wide(hi, lo) == [hi |-> hi + (lo \div LimbBase), lo |-> lo % LimbBase]

\* The u32 / usize of a small natural.
U32(n) == Wide(0, n)

\* u32::MAX
U32Max == [hi |-> LimbBase - 1, lo |-> LimbBase - 1]

\* x fits a u32: what usize::try_into::<u32> tests.
FitsU32(x) == x.hi < LimbBase

\* x < n and x >= n for a small natural n.
Below(x, n) == x.hi = 0 /\ x.lo < n

\* x + k, x * k and x / k for a small natural k, without wrapping.
WideAdd(x, k) == Wide(x.hi, x.lo + k)
WideMul(x, k) == Wide(x.hi * k, x.lo * k)
WideDiv(x, k) == [hi |-> x.hi \div k, lo |-> ((x.hi % k) * LimbBase + x.lo) \div k]

\* x <= y
WideLeq(x, y) == x.hi < y.hi \/ (x.hi = y.hi /\ x.lo <= y.lo)

\* `as usize` of a u32 that is small enough to index a sequence.
AsIndex(x) == x.hi * LimbBase + x.lo

----------------------------------------------------------------------------
(* Program constants.                                                      *)

INTERNED_VARIABLE_COUNT == 16
\* The pointer value of UnsafeHandle::dangling().
DanglingPointer == 8
\* size_of::<UnsafeHandle>() on a 64-bit target.
PTR_SIZE == 8
\* Header size and object alignment used by Heap::alloc.
HeaderSize == 8
\* FreeCache::EMPTY and FreeCache::UNKNOWN.
EMPTY == 0
UNKNOWN == 255
\* Indices below this one fit in a free cache.
FreeCacheWidth == 8

\* b"Null"
NullName == <<78, 117, 108, 108>>

\* Names and De Bruijn indices the mutator passes to the constructors.
Names == { <<>>, <<65, 0>> }
\* The length of a name one byte too long for new_symbol: 2^32.
TooLong == WideAdd(U32Max, 1)
\* The least argument count new_application rejects: (n + 1) * PTR_SIZE = 2^32.
TooMany == WideDiv(U32Max, PTR_SIZE)
DeBruijns == { U32(7), U32(16), U32Max }

----------------------------------------------------------------------------
(* Option<T>: None is the empty sequence, Some(x) the sequence of x.       *)

None == <<>>
Some(x) == <<x>>

\* Result<T, E> with a unit error, likewise.
Err == <<>>
Ok(x) == <<x>>

\* What a call returned: the function called, the argument its result depends
\* on (recorded for the calls made on their own, outside a heap), the result.
Returned(call, input, output) == [call |-> call, input |-> input, output |-> output]
NoCall == Returned("none", None, None)

----------------------------------------------------------------------------
(* Native-endian encoding of a u32 in the header's extra field.  Both      *)
(* directions use the byte order of the one machine the program runs on;   *)
(* the little-endian order is written out.                                 *)

\* u32::to_ne_bytes
to_ne_bytes(x) ==
    << x.lo % 256, x.lo \div 256, x.hi % 256, x.hi \div 256 >>

\* u32::from_ne_bytes
from_ne_bytes(b) ==
    [hi |-> b[3] + 256 * b[4], lo |-> b[1] + 256 * b[2]]

----------------------------------------------------------------------------
(* FreeCache: one byte, bit d set when De Bruijn index d < 8 appears free, *)
(* 0xFF for the "unknown" state.                                           *)

RECURSIVE BitOr(_, _)
\* Bitwise OR of two naturals.
BitOr(a, b) ==
    IF a = 0 THEN b
    ELSE IF b = 0 THEN a
    ELSE (IF a % 2 = 1 \/ b % 2 = 1 THEN 1 ELSE 0) + 2 * BitOr(a \div 2, b \div 2)

RECURSIVE BitAnd(_, _)
\* Bitwise AND of two naturals.
BitAnd(a, b) ==
    IF a = 0 \/ b = 0 THEN 0
    ELSE (IF a % 2 = 1 /\ b % 2 = 1 THEN 1 ELSE 0) + 2 * BitAnd(a \div 2, b \div 2)

\* insert refusing the index 7 as well.
insert_below_seven(bits, de_bruijn) ==
    IF ~Below(de_bruijn, FreeCacheWidth - 1) THEN UNKNOWN
    ELSE BitOr(bits, 2 ^ de_bruijn.lo)

\* insert shifting by the low three bits of any index.
insert_masked(bits, de_bruijn) == BitOr(bits, 2 ^ (de_bruijn.lo % FreeCacheWidth))

\* insert leaving the cache alone for an index that does not fit.
insert_ignoring_large(bits, de_bruijn) ==
    IF ~Below(de_bruijn, FreeCacheWidth) THEN bits
    ELSE BitOr(bits, 2 ^ de_bruijn.lo)

\* An insert that forgets the indices already in the cache.
insert_overwriting(bits, de_bruijn) ==
    IF ~Below(de_bruijn, FreeCacheWidth) THEN UNKNOWN
    ELSE 2 ^ de_bruijn.lo

\* FreeCache::insert
insert(bits, de_bruijn) ==
    IF ~Below(de_bruijn, FreeCacheWidth) THEN UNKNOWN
    ELSE BitOr(bits, 2 ^ de_bruijn.lo)

\* FreeCache::contains
contains(bits, de_bruijn) ==
    IF bits = UNKNOWN THEN None
    ELSE IF ~Below(de_bruijn, FreeCacheWidth) THEN Some(FALSE)
    ELSE Some(BitAnd(bits, 2 ^ de_bruijn.lo) # 0)

\* The union `|=` that new_application folds over the fields' caches.
union(a, b) == BitOr(a, b)

----------------------------------------------------------------------------
(* Objects and the allocator.                                              *)

Kinds == {"Symbol", "Variable", "Application"}

\* Flags::empty()
NoFlags == {}

\* An allocator that hands out the address of the first object again.
NewPointer_reused(objs) == HeaderSize * 2

\* An allocator that, once heap setup is over, hands out again the block it
\* handed out last.
NewPointer_recycled(objs) ==
    IF Cardinality(DOMAIN objs) <= INTERNED_VARIABLE_COUNT
    THEN HeaderSize * (Cardinality(DOMAIN objs) + 2)
    ELSE HeaderSize * (Cardinality(DOMAIN objs) + 1)

\* The pointer alloc() obtains from the allocator: 8-aligned, not null, and
\* different from every block handed out before (objects are never freed).
NewPointer(objs) == HeaderSize * (Cardinality(DOMAIN objs) + 2)

\* Heap::alloc: the object is written at the new pointer.
alloc(objs, object) == objs @@ (NewPointer(objs) :> object)

\* name_len computed with an `as u32` cast.
name_len_truncating(len) == Ok([hi |-> len.hi % LimbBase, lo |-> len.lo])

\* name_len of new_symbol: the length of the name as a u32, or the error.
name_len(len) == IF FitsU32(len) THEN Ok(len) ELSE Err

\* The object new_symbol's initializer builds.
SymbolObject(name) ==
    [ kind       |-> "Symbol",
      flags      |-> NoFlags,
      free_cache |-> EMPTY,
      extra      |-> to_ne_bytes(name_len(U32(Len(name)))[1]),
      payload    |-> name ]

\* A variable whose extra field keeps only the low 16 bits of the index.
VariableObject_truncated(de_bruijn) ==
    [ kind       |-> "Variable",
      flags      |-> NoFlags,
      free_cache |-> insert(EMPTY, de_bruijn),
      extra      |-> to_ne_bytes(U32(de_bruijn.lo)),
      payload    |-> <<>> ]

\* The object new_variable_not_interned's initializer builds.
VariableObject(de_bruijn) ==
    [ kind       |-> "Variable",
      flags      |-> NoFlags,
      free_cache |-> insert(EMPTY, de_bruijn),
      extra      |-> to_ne_bytes(de_bruijn),
      payload    |-> <<>> ]

\* payload_size with a wrapping multiplication.
payload_size_wrapping(num_arguments) ==
    IF ~FitsU32(num_arguments) THEN Err
    ELSE IF ~FitsU32(WideAdd(num_arguments, 1)) THEN Err
    ELSE Ok([ hi |-> WideMul(WideAdd(num_arguments, 1), PTR_SIZE).hi % LimbBase,
              lo |-> WideMul(WideAdd(num_arguments, 1), PTR_SIZE).lo ])

\* payload_size checking the size of the arguments without the function.
payload_size_no_function(num_arguments) ==
    IF ~FitsU32(num_arguments) THEN Err
    ELSE IF ~FitsU32(WideAdd(num_arguments, 1)) THEN Err
    ELSE IF ~FitsU32(WideMul(num_arguments, PTR_SIZE)) THEN Err
    ELSE Ok(WideMul(WideAdd(num_arguments, 1), PTR_SIZE))

\* payload_size of an application: Err when the argument count, the field
\* count or the byte size does not fit a u32.
payload_size(num_arguments) ==
    IF ~FitsU32(num_arguments) THEN Err
    ELSE IF ~FitsU32(WideAdd(num_arguments, 1)) THEN Err
    ELSE IF ~FitsU32(WideMul(WideAdd(num_arguments, 1), PTR_SIZE)) THEN Err
    ELSE Ok(WideMul(WideAdd(num_arguments, 1), PTR_SIZE))

\* num_fields of new_application's initializer.
num_fields(size) == WideDiv(size, PTR_SIZE)

RECURSIVE FoldFreeCache_last(_, _, _)
\* The loop assigning each field's cache instead of accumulating it.
FoldFreeCache_last(objs, fields, acc) ==
    IF fields = <<>> THEN acc
    ELSE FoldFreeCache_last(objs, Tail(fields), objs[Head(fields)].free_cache)

RECURSIVE FoldFreeCache(_, _, _)
\* The loop of new_application's initializer over the fields' headers.
FoldFreeCache(objs, fields, acc) ==
    IF fields = <<>> THEN acc
    ELSE FoldFreeCache(objs, Tail(fields), union(acc, objs[Head(fields)].free_cache))

\* The object new_application's initializer builds; fields are the unsafe
\* handles read from the function and the arguments, in order.
ApplicationObject(objs, fields) ==
    [ kind       |-> "Application",
      flags      |-> NoFlags,
      free_cache |-> FoldFreeCache(objs, fields, EMPTY),
      extra      |-> to_ne_bytes(num_fields(payload_size(U32(Len(fields) - 1))[1])),
      payload    |-> fields ]

----------------------------------------------------------------------------
(* Handles.  An unsafe handle is an address.  A scoped handle points to a  *)
(* slot: slot i of a registered scope, or field i of an object's payload   *)
(* (the handles as_application hands out).                                 *)

ScopeSlot(scope, i) == [space |-> "scope", at |-> scope, i |-> i]
PayloadSlot(object, i) == [space |-> "payload", at |-> object, i |-> i]

\* ScopedHandle::as_unsafe_handle
as_unsafe_handle(objs, cs, h) ==
    IF h.space = "scope" THEN cs[h.at][h.i + 1] ELSE objs[h.at].payload[h.i + 1]

\* A write that lands in the slot of that index of every scope.
SetCell_every_scope(cs, h, v) ==
    IF h.space = "scope"
    THEN [s \in DOMAIN cs |-> IF h.i + 1 \in DOMAIN cs[s] THEN [cs[s] EXCEPT ![h.i + 1] = v] ELSE cs[s]]
    ELSE cs

\* ScopedHandle::copy_from_unsafe_handle, on the scopes' slot arrays ...
SetCell(cs, h, v) ==
    IF h.space = "scope" THEN [cs EXCEPT ![h.at][h.i + 1] = v] ELSE cs

\* ... and on the payload slots of objects.
SetField(objs, h, v) ==
    IF h.space = "payload" THEN [objs EXCEPT ![h.at].payload[h.i + 1] = v] ELSE objs

\* A heap that interns no variable.
interned_variable_none(de_bruijn) == None

\* A heap that consults one entry too few of the interned array.
interned_variable_short(de_bruijn) ==
    IF Below(de_bruijn, INTERNED_VARIABLE_COUNT - 1) THEN Some(interned_variables[de_bruijn.lo]) ELSE None

\* Heap::interned_variable
interned_variable(de_bruijn) ==
    IF Below(de_bruijn, INTERNED_VARIABLE_COUNT) THEN Some(interned_variables[de_bruijn.lo]) ELSE None

----------------------------------------------------------------------------
(* Inspection.                                                             *)

\* as_symbol taking one byte too few.
as_symbol_short(objs, p) ==
    IF objs[p].kind = "Symbol"
    THEN Some(SubSeq(objs[p].payload, 1, AsIndex(from_ne_bytes(objs[p].extra)) - 1))
    ELSE None

\* PinnedHandle::as_symbol, on the pinned object at address p.
as_symbol(objs, p) ==
    IF objs[p].kind = "Symbol"
    THEN Some(SubSeq(objs[p].payload, 1, AsIndex(from_ne_bytes(objs[p].extra))))
    ELSE None

\* as_variable that reads the extra field without looking at the kind.
as_variable_unchecked(objs, cs, h) ==
    Some(from_ne_bytes(objs[as_unsafe_handle(objs, cs, h)].extra))

\* ScopedHandle::as_variable
as_variable(objs, cs, h) ==
    IF objs[as_unsafe_handle(objs, cs, h)].kind = "Variable"
    THEN Some(from_ne_bytes(objs[as_unsafe_handle(objs, cs, h)].extra))
    ELSE None

\* as_application whose argument scope starts at the function field.
as_application_all_fields(objs, p) ==
    IF objs[p].kind = "Application"
    THEN Some([ function  |-> PayloadSlot(p, 0),
                arguments |-> [i \in 1 .. AsIndex(from_ne_bytes(objs[p].extra)) |-> PayloadSlot(p, i - 1)] ])
    ELSE None

\* PinnedHandle::as_application: the scoped handle of the function field and
\* the scoped handles of the argument scope, in order.
as_application(objs, p) ==
    IF objs[p].kind = "Application"
    THEN Some([ function  |-> PayloadSlot(p, 0),
                arguments |-> [i \in 1 .. (AsIndex(from_ne_bytes(objs[p].extra)) - 1) |-> PayloadSlot(p, i)] ])
    ELSE None

----------------------------------------------------------------------------
(* The call stack.  A frame is a with_scope call or a with_pin call whose  *)
(* callback has not finished.                                              *)

ScopeFrame(shape, scope) ==
    [ kind |-> "scope", shape |-> shape, scope |-> scope,
      handle |-> 0, already_pinned |-> FALSE, borrowed |-> FALSE ]

PinFrame(handle, already_pinned) ==
    [ kind |-> "pin", shape |-> "none", scope |-> 0,
      handle |-> handle, already_pinned |-> already_pinned, borrowed |-> FALSE ]

\* The address of the slot array a with_new_*_scope call at this depth creates.
NewScope == Len(stack) + 1

\* The scoped handles a scope gives out: Scope::get for every index in range.
ScopeHandles(scope) == { ScopeSlot(scope, i) : i \in 0 .. (Len(cells[scope]) - 1) }

\* Scope::new over the slot array of a with_new_*_scope call: the scope as
\* the sequence of the scoped handles of its slots.
StackScope(scope) == [i \in 1 .. Len(cells[scope]) |-> ScopeSlot(scope, i - 1)]

\* A get that also accepts the index one past the end, where no slot is.
get_inclusive(scope, index) ==
    IF index.hi = 0 /\ index.lo <= Len(scope)
    THEN Some(IF index.lo < Len(scope) THEN scope[index.lo + 1] ELSE ScopeSlot(0, index.lo))
    ELSE None

\* Scope::get
get(scope, index) ==
    IF Below(index, Len(scope)) THEN Some(scope[index.lo + 1]) ELSE None

\* Scope::get_unchecked, called with an index in bounds.
get_unchecked(scope, index) == scope[index + 1]

\* An iterator that walks the slots from the last to the first.
iter_reversed(scope) == [i \in 1 .. Len(scope) |-> scope[Len(scope) + 1 - i]]

\* Scope::iter: the slice iterator of the slot array mapped to scoped
\* handles, as the sequence it yields; its len() is the length of that
\* sequence.
iter(scope) == [i \in 1 .. Len(scope) |-> scope[i]]

\* The array of N scoped handles with_new_array_scope gives to its callback.
scoped_handles(scope, n) == [i \in 1 .. n |-> get_unchecked(scope, i - 1)]

\* The scoped handles as_application gave out for the pinned object p.
BorrowedHandles(p) ==
    IF as_application(objects, p) = None THEN {}
    ELSE { as_application(objects, p)[1].function }
         \cup { as_application(objects, p)[1].arguments[i] :
                    i \in DOMAIN as_application(objects, p)[1].arguments }

\* Every scoped handle the mutator holds: those of the scopes whose callback
\* is running and those borrowed from pinned applications.
ScopedHandles ==
    UNION { IF stack[k].kind = "scope" THEN ScopeHandles(stack[k].scope)
            ELSE IF stack[k].borrowed THEN BorrowedHandles(stack[k].handle)
            ELSE {} : k \in 1 .. Len(stack) }

----------------------------------------------------------------------------
(* UnsafeRefCell.  With debug assertions the cell is a RefCell, whose      *)
(* borrow flag is 0 while unborrowed and -1 while mutably borrowed;        *)
(* without them it is an UnsafeCell, which keeps no flag.  guards counts   *)
(* the UnsafeRefMut values alive.                                          *)

\* UnsafeRefCell::new
UnsafeRefCell_new(debug_assertions) ==
    [debug_assertions |-> debug_assertions, borrow |-> 0, guards |-> 0]

\* A borrow_mut that hands out a guard without looking at the flag.
borrow_mut_unchecked(c) == Ok([c EXCEPT !.guards = @ + 1])

\* UnsafeRefCell::borrow_mut: the cell after the call, or Err for the panic of
\* RefCell::borrow_mut.  Without debug assertions the call hands out a guard
\* whatever the state of the cell.
borrow_mut(c) ==
    IF c.debug_assertions
    THEN IF c.borrow = 0 THEN Ok([c EXCEPT !.borrow = -1, !.guards = @ + 1]) ELSE Err
    ELSE Ok([c EXCEPT !.guards = @ + 1])

\* Drop of an UnsafeRefMut.
drop_ref_mut(c) ==
    IF c.debug_assertions
    THEN [c EXCEPT !.borrow = @ + 1, !.guards = @ - 1]
    ELSE [c EXCEPT !.guards = @ - 1]

\* A statement that keeps the guard it borrowed alive after its end.
borrow_for_statement_kept(c) == borrow_mut(c)[1]

\* The cell after a statement `unsafe { cell.borrow_mut() }.f(..)` whose
\* borrow_mut succeeded: the guard is a temporary and is dropped at the end
\* of the statement.
borrow_for_statement(c) == drop_ref_mut(borrow_mut(c)[1])

----------------------------------------------------------------------------
(* Scopes.                                                                 *)

\* Slots initialized to the dangling placeholder instead.
FreshSlots_dangling(n) == [i \in 1 .. n |-> DanglingPointer]

\* The slot array with_new_array_scope / with_new_boxed_scope builds: every
\* slot holds what interned_null() returns at that moment.
FreshSlots(n) == [i \in 1 .. n |-> interned_null]

\* A pop that removes nothing.
pop_nothing(ss) == ss

\* A push that registers the scope twice.
push_twice(ss, scope) == Append(Append(ss, scope), scope)

\* Vec::push and Vec::pop on Heap::scopes.
push(ss, scope) == Append(ss, scope)
pop(ss) == IF ss = <<>> THEN ss ELSE SubSeq(ss, 1, Len(ss) - 1)

\* with_scope with the pop as a plain statement after the callback: a panic
\* skips it.
with_scope_exit_not_deferred(ss, unwinding) == IF unwinding THEN ss ELSE pop(ss)

\* Heap::scopes after the deferred pop of with_scope ran; unwinding tells
\* whether the callback returned or panicked.
with_scope_exit(ss, unwinding) == pop(ss)

\* Entry of with_scope, up to the call of the callback: the scope stack is
\* borrowed for the push alone.  A borrow_mut that finds the stack borrowed
\* panics before anything is pushed.
with_scope(shape, n) ==
    IF borrow_mut(ref_cell) = Err
    THEN /\ panicking' = TRUE
         /\ returned' = Returned("borrow_mut", None, Err)
         /\ UNCHANGED <<scopes, cells, stack, ref_cell>>
    ELSE /\ scopes' = push(scopes, NewScope)
         /\ cells' = cells @@ (NewScope :> FreshSlots(n))
         /\ ref_cell' = borrow_for_statement(ref_cell)
         /\ stack' = Append(stack, ScopeFrame(shape, NewScope))
         /\ UNCHANGED <<panicking, returned>>

----------------------------------------------------------------------------
(* Pinning.                                                                *)

\* with_pin that calls the callback without setting the flag.
with_pin_entry_unpinned(objs, p) == objs

\* with_pin setting the MARKED flag along with PINNED.
with_pin_entry_marking(objs, p) ==
    [objs EXCEPT ![p].flags = @ \cup {"PINNED", "MARKED"}]

\* with_pin up to the call of the callback: the flag is set if it was clear.
with_pin_entry(objs, p) ==
    IF "PINNED" \in objs[p].flags THEN objs
    ELSE [objs EXCEPT ![p].flags = @ \cup {"PINNED"}]

\* with_pin with the unpinning as a plain statement after the callback.
with_pin_exit_not_deferred(objs, frame, unwinding) ==
    IF ~frame.already_pinned /\ ~unwinding
    THEN [objs EXCEPT ![frame.handle].flags = @ \ {"PINNED"}]
    ELSE objs

\* with_pin unpinning whether or not the object was pinned on entry.
with_pin_exit_always(objs, frame, unwinding) ==
    [objs EXCEPT ![frame.handle].flags = @ \ {"PINNED"}]

\* with_pin whose exit clears the flag of every object.
with_pin_exit_every_object(objs, frame, unwinding) ==
    IF ~frame.already_pinned
    THEN [p \in DOMAIN objs |-> [objs[p] EXCEPT !.flags = @ \ {"PINNED"}]]
    ELSE objs

\* The deferred block of with_pin.
with_pin_exit(objs, frame, unwinding) ==
    IF ~frame.already_pinned
    THEN [objs EXCEPT ![frame.handle].flags = @ \ {"PINNED"}]
    ELSE objs

\* The innermost callback is left and the cleanup of its frame runs: the
\* deferred pop of with_scope, which borrows the scope stack for the pop
\* alone, or the deferred block of with_pin.
LeaveFrame(unwinding) ==
    /\ stack # << >>
    /\ stack' = SubSeq(stack, 1, Len(stack) - 1)
    /\ IF stack[Len(stack)].kind = "scope"
       THEN /\ cells' = [s \in DOMAIN cells \ {stack[Len(stack)].scope} |-> cells[s]]
            /\ UNCHANGED objects
            /\ IF borrow_mut(ref_cell) = Err
               THEN /\ panicking' = TRUE
                    /\ returned' = Returned("borrow_mut", None, Err)
                    /\ UNCHANGED <<scopes, ref_cell>>
               ELSE /\ scopes' = with_scope_exit(scopes, unwinding)
                    /\ ref_cell' = borrow_for_statement(ref_cell)
                    /\ UNCHANGED <<panicking, returned>>
       ELSE /\ objects' = with_pin_exit(objects, stack[Len(stack)], unwinding)
            /\ UNCHANGED <<scopes, cells, panicking, returned, ref_cell>>

----------------------------------------------------------------------------
(* Constructors, as the effect on the objects and on the slots.            *)

\* ScopedHandle::copy_from_unsafe_handle
copy_from_unsafe_handle(into, v) ==
    /\ objects' = SetField(objects, into, v)
    /\ cells' = SetCell(cells, into, v)

\* Heap::new: allocate, initialize, then point the slot to the object.
new(into, object) ==
    /\ objects' = SetField(alloc(objects, object), into, NewPointer(objects))
    /\ cells' = SetCell(cells, into, NewPointer(objects))

\* Heap::new_symbol, the Ok path.
new_symbol(into, name) ==
    /\ name_len(U32(Len(name))) # Err
    /\ new(into, SymbolObject(name))

\* new_symbol finding the name too long only after Heap::new ran.
new_symbol_too_long_after_new(into, len) ==
    /\ name_len(len) = Err
    /\ new(into, SymbolObject(<<>>))

\* Heap::new_symbol, the Err path, for a name of len bytes: the `?` returns
\* before Heap::new is called.
new_symbol_too_long(into, len) ==
    /\ name_len(len) = Err
    /\ UNCHANGED <<objects, cells>>

\* Heap::new_variable_not_interned
new_variable_not_interned(into, de_bruijn) ==
    new(into, VariableObject(de_bruijn))

\* Heap::new_variable
new_variable(into, de_bruijn) ==
    IF interned_variable(de_bruijn) # None
    THEN copy_from_unsafe_handle(into, interned_variable(de_bruijn)[1])
    ELSE new_variable_not_interned(into, de_bruijn)

\* The initializer storing the arguments last to first.
Fields_reversed(function, arguments) ==
    <<as_unsafe_handle(objects, cells, function)>>
        \o [i \in 1 .. Len(arguments) |->
               as_unsafe_handle(objects, cells, arguments[Len(arguments) + 1 - i])]

\* The unsafe handles new_application's initializer reads: the function,
\* then the arguments in iteration order.
Fields(function, arguments) ==
    <<as_unsafe_handle(objects, cells, function)>>
        \o [i \in 1 .. Len(arguments) |-> as_unsafe_handle(objects, cells, arguments[i])]

\* A constructor that points the slot to the new block before its initializer
\* reads the fields: a field read through that slot is the new block itself,
\* whose header the fold cannot read yet.
new_application_into_first(into, function, arguments) ==
    /\ payload_size(U32(Len(arguments))) # Err
    /\ LET early == SetCell(cells, into, NewPointer(objects))
           fields == <<as_unsafe_handle(objects, early, function)>>
                         \o [i \in 1 .. Len(arguments) |-> as_unsafe_handle(objects, early, arguments[i])]
           built == SelectSeq(fields, LAMBDA f : f \in DOMAIN objects)
       IN  new(into, [ApplicationObject(objects, built) EXCEPT
                          !.extra = to_ne_bytes(U32(Len(fields))),
                          !.payload = fields])

\* Heap::new_application, the Ok path.
new_application(into, function, arguments) ==
    /\ payload_size(U32(Len(arguments))) # Err
    /\ new(into, ApplicationObject(objects, Fields(function, arguments)))

\* Heap::new_application, the Err path, for an iterator of n arguments: the
\* `?` returns before Heap::new is called.
new_application_too_many(into, function, n) ==
    /\ payload_size(n) = Err
    /\ UNCHANGED <<objects, cells>>

\* A copy in the wrong direction.
copy_from_reversed(into, other) ==
    copy_from_unsafe_handle(other, as_unsafe_handle(objects, cells, into))

\* ScopedHandle::copy_from
copy_from(into, other) ==
    copy_from_unsafe_handle(into, as_unsafe_handle(objects, cells, other))

----------------------------------------------------------------------------
(* Heap::with_new.  The heap is built with dangling placeholders for the   *)
(* interned objects; they are filled in through a scratch scope of one     *)
(* slot before the continuation runs.                                      *)

At(label) == [at |-> label, i |-> 0]

Init ==
    /\ pc = At("open_scratch")
    /\ objects = << >>
    /\ interned_null = DanglingPointer
    /\ interned_variables = [i \in 0 .. (INTERNED_VARIABLE_COUNT - 1) |-> DanglingPointer]
    /\ scopes = << >>
    /\ cells = << >>
    /\ stack = << >>
    /\ panicking = FALSE
    /\ profile \in Profiles
    /\ returned = NoCall
    /\ cache = EMPTY
    /\ inserted = {}
    /\ ref_cell = UnsafeRefCell_new(TRUE)

\* The one slot of the scratch scope.
Scratch == ScopeSlot(1, 0)

\* Step 2: open the scratch scope.
SetupOpenScratch ==
    /\ pc = At("open_scratch")
    /\ with_scope("array", 1)
    /\ pc' = At("null")
    /\ UNCHANGED <<objects, interned_null, interned_variables, profile, cache, inserted>>

\* Step 3: construct the Null symbol and keep its handle.
SetupNull ==
    /\ pc = At("null")
    /\ new_symbol(Scratch, NullName)
    /\ interned_null' = as_unsafe_handle(objects', cells', Scratch)
    /\ pc' = [at |-> "variables", i |-> 0]
    /\ UNCHANGED <<interned_variables, scopes, stack, panicking, profile, returned, cache, inserted, ref_cell>>

\* Step 4, one turn of the loop: construct the variable pc.i, not interned.
SetupVariable ==
    /\ pc.at = "variables"
    /\ pc.i < INTERNED_VARIABLE_COUNT
    /\ new_variable_not_interned(Scratch, U32(pc.i))
    /\ interned_variables' =
           [interned_variables EXCEPT ![pc.i] = as_unsafe_handle(objects', cells', Scratch)]
    /\ pc' = [pc EXCEPT !.i = @ + 1]
    /\ UNCHANGED <<interned_null, scopes, stack, panicking, profile, returned, cache, inserted, ref_cell>>

\* Step 5: close the scratch scope.
SetupCloseScratch ==
    /\ pc.at = "variables"
    /\ pc.i = INTERNED_VARIABLE_COUNT
    /\ LeaveFrame(FALSE)
    /\ pc' = At("then")
    /\ UNCHANGED <<interned_null, interned_variables, profile, cache, inserted>>

----------------------------------------------------------------------------
(* The continuation: any sequence of calls of the safe interface.          *)

\* The mutator is running the continuation and is not unwinding.
Running == pc = At("then") /\ ~panicking

\* The objects heap setup allocates.
SetupObjects == INTERNED_VARIABLE_COUNT + 1

\* The mutators of this family call the fallible constructors.
CanConstruct == MaxAlloc > 0
CanAlloc == Cardinality(DOMAIN objects) < SetupObjects + MaxAlloc
Frames(kind) == { k \in 1 .. Len(stack) : stack[k].kind = kind }
CanOpenScope == Cardinality(Frames("scope")) < MaxScopes
CanPin == Cardinality(Frames("pin")) < MaxPins

\* heap.with_new_array_scope::<N>(then), up to the call of then.
WithNewArrayScope(n) ==
    /\ Running /\ CanOpenScope
    /\ with_scope("array", n)
    /\ UNCHANGED <<pc, objects, interned_null, interned_variables, profile, cache, inserted>>

\* heap.with_new_boxed_scope(size, then), up to the call of then.
WithNewBoxedScope(size) ==
    /\ Running /\ CanOpenScope
    /\ with_scope("boxed", size)
    /\ UNCHANGED <<pc, objects, interned_null, interned_variables, profile, cache, inserted>>

\* h.with_pin(then), up to the call of then.
WithPin(h) ==
    /\ Running /\ CanPin
    /\ objects' = with_pin_entry(objects, as_unsafe_handle(objects, cells, h))
    /\ stack' = Append(stack, PinFrame(as_unsafe_handle(objects, cells, h),
                                       "PINNED" \in objects[as_unsafe_handle(objects, cells, h)].flags))
    /\ UNCHANGED <<pc, interned_null, interned_variables, scopes, cells, panicking, profile, returned, cache, inserted, ref_cell>>

\* p.as_application() on the pinned handle of frame k, returning Some: the
\* mutator now holds the function handle and the argument scope.
AsApplication(k) ==
    /\ Running
    /\ stack[k].kind = "pin"
    /\ ~stack[k].borrowed
    /\ as_application(objects, stack[k].handle) # None
    /\ stack' = [stack EXCEPT ![k].borrowed = TRUE]
    /\ UNCHANGED <<pc, objects, interned_null, interned_variables, scopes, cells, panicking, profile, returned, cache, inserted, ref_cell>>

\* The innermost callback returns.
Return ==
    /\ Running
    /\ LeaveFrame(FALSE)
    /\ UNCHANGED <<pc, interned_null, interned_variables, profile, cache, inserted>>

NewSymbol(into, name) ==
    /\ Running /\ CanAlloc
    /\ new_symbol(into, name)
    /\ returned' = Returned("new_symbol", None, Ok(<<>>))
    /\ UNCHANGED <<pc, interned_null, interned_variables, scopes, stack, panicking, profile, cache, inserted, ref_cell>>

\* heap.new_symbol(into, name) with a name longer than a u32 can tell.
NewSymbolTooLong(into, len) ==
    /\ Running /\ CanConstruct
    /\ new_symbol_too_long(into, len)
    /\ returned' = Returned("new_symbol", None, Err)
    /\ UNCHANGED <<pc, interned_null, interned_variables, scopes, stack, panicking, profile, cache, inserted, ref_cell>>

NewVariable(into, de_bruijn) ==
    /\ Running
    /\ interned_variable(de_bruijn) = None => CanAlloc
    /\ new_variable(into, de_bruijn)
    /\ UNCHANGED <<pc, interned_null, interned_variables, scopes, stack, panicking, profile, returned, cache, inserted, ref_cell>>

NewApplication(into, function, arguments) ==
    /\ Running /\ CanAlloc
    /\ new_application(into, function, arguments)
    /\ returned' = Returned("new_application", None, Ok(<<>>))
    /\ UNCHANGED <<pc, interned_null, interned_variables, scopes, stack, panicking, profile, cache, inserted, ref_cell>>

\* heap.new_application(into, function, arguments) with an iterator of more
\* arguments than a payload can hold.
NewApplicationTooMany(into, function, n) ==
    /\ Running /\ CanConstruct
    /\ new_application_too_many(into, function, n)
    /\ returned' = Returned("new_application", None, Err)
    /\ UNCHANGED <<pc, interned_null, interned_variables, scopes, stack, panicking, profile, cache, inserted, ref_cell>>

CopyFrom(into, other) ==
    /\ Running
    /\ copy_from(into, other)
    /\ UNCHANGED <<pc, interned_null, interned_variables, scopes, stack, panicking, profile, returned, cache, inserted, ref_cell>>

\* The running callback panics.
Panic ==
    /\ Running
    /\ panicking' = TRUE
    /\ UNCHANGED <<pc, objects, interned_null, interned_variables, scopes, cells, stack, profile, returned, cache, inserted, ref_cell>>

\* The panic leaves one more callback.
Unwind ==
    /\ pc = At("then") /\ panicking
    /\ LeaveFrame(TRUE)
    /\ UNCHANGED <<pc, interned_null, interned_variables, profile, cache, inserted>>

\* A catch_unwind of the mutator stops the panic.
Recover ==
    /\ pc = At("then") /\ panicking
    /\ panicking' = FALSE
    /\ UNCHANGED <<pc, objects, interned_null, interned_variables, scopes, cells, stack, profile, returned, cache, inserted, ref_cell>>

\* The continuation returns, or the panic leaves with_new.
Finish ==
    /\ pc = At("then")
    /\ stack = << >>
    /\ pc' = At("done")
    /\ UNCHANGED <<objects, interned_null, interned_variables, scopes, cells, stack, panicking, profile, returned, cache, inserted, ref_cell>>

ArgumentLists == UNION { [1 .. n -> ScopedHandles] : n \in 0 .. MaxArgs }

Next ==
    \/ SetupOpenScratch
    \/ SetupNull
    \/ SetupVariable
    \/ SetupCloseScratch
    \/ \E n \in 0 .. MaxSlots : WithNewArrayScope(n)
    \/ \E size \in 0 .. MaxSlots : WithNewBoxedScope(size)
    \/ \E h \in ScopedHandles : WithPin(h)
    \/ \E k \in 1 .. Len(stack) : AsApplication(k)
    \/ Return
    \/ \E into \in ScopedHandles, name \in Names : NewSymbol(into, name)
    \/ \E into \in ScopedHandles : NewSymbolTooLong(into, TooLong)
    \/ \E into \in ScopedHandles, de_bruijn \in DeBruijns : NewVariable(into, de_bruijn)
    \/ \E into \in ScopedHandles, function \in ScopedHandles, arguments \in ArgumentLists :
           NewApplication(into, function, arguments)
    \/ \E into \in ScopedHandles, function \in ScopedHandles :
           NewApplicationTooMany(into, function, TooMany)
    \/ \E into \in ScopedHandles, other \in ScopedHandles : CopyFrom(into, other)
    \/ Panic
    \/ Unwind
    \/ Recover
    \/ Finish

Spec == Init /\ [][Next]_vars

----------------------------------------------------------------------------
(* Functions called on their own on inputs drawn from sample sets: the     *)
(* FreeCache operations, the size computations of the constructors, the    *)
(* initializer of an application, Scope::get and the variable lookup on    *)
(* one boxed scope, and UnsafeRefCell.  The heap is the one Heap::with_new *)
(* hands to its continuation; the constructors alone change it, and the    *)
(* "alloc" family calls them repeatedly on the slots of one array scope.   *)

UnitProfiles == {"free_cache", "sizes", "fields", "scope", "ref_cell", "alloc"}

\* The greatest number of guards the "ref_cell" family asks for at a time.
MaxGuards == 2

\* The greatest size of the boxed scope of the "scope" family.
UnitSlots == 3

\* Indices handed to Scope::get (usize values): every index of the largest
\* scope, the first past it, and indices whose low bits look like small ones.
ScopeIndices == { U32(i) : i \in 0 .. (UnitSlots + 1) } \cup { Wide(1, 0), Wide(1, 1), U32Max, TooLong }

\* De Bruijn indices handed to insert and contains: every cacheable index,
\* the first that is not, and indices whose low bits look like small ones.
Indices == { U32(i) : i \in 0 .. FreeCacheWidth } \cup { Wide(1, 0), Wide(1, 3), U32Max }

\* The greatest argument count new_application accepts.
LargestAccepted == [hi |-> TooMany.hi, lo |-> TooMany.lo - 1]

\* 2^30
TwoPow30 == Wide(LimbBase \div 4, 0)

\* Name lengths and argument counts (usize values) around the u32 limits.
Lengths ==
    { U32(0), U32(2), U32(LimbBase - 1), Wide(1, 0), U32Max,
      TooLong, WideAdd(TooLong, 1), Wide(2 * LimbBase, 7) }
ArgumentCounts ==
    { U32(0), U32(2), LargestAccepted, TooMany, TwoPow30,
      [hi |-> LimbBase - 1, lo |-> LimbBase - 2], U32Max, TooLong }

RECURSIVE HeapAfterSetup(_)
\* The objects after the setup of with_new built the first i interned variables.
HeapAfterSetup(i) ==
    IF i = 0 THEN alloc(<< >>, SymbolObject(NullName))
    ELSE alloc(HeapAfterSetup(i - 1), VariableObject(U32(i - 1)))

\* Functions and argument lists handed to the initializer of an application.
SampleFunctions == { interned_null, interned_variables[0] }
SampleArguments ==
    UNION { [1 .. n -> { interned_variables[d] : d \in {1, 3, 5, 9} }] : n \in 0 .. 3 }

\* The "scope" family starts inside the continuation of with_new, in the
\* callback of one with_new_boxed_scope(size, ..) or with_new_array_scope::<N>
\* call; the other families call functions that need no heap state.
UnitInit ==
    /\ profile \in UnitProfiles
    /\ pc = IF profile \in {"scope", "alloc"} THEN At("then") ELSE At("unit")
    /\ objects = HeapAfterSetup(INTERNED_VARIABLE_COUNT)
    /\ interned_null = NewPointer(<< >>)
    /\ interned_variables = [i \in 0 .. (INTERNED_VARIABLE_COUNT - 1) |-> NewPointer(HeapAfterSetup(i))]
    /\ IF profile = "scope"
       THEN \E size \in 0 .. UnitSlots, shape \in {"array", "boxed"} :
               /\ scopes = <<1>>
               /\ cells = (1 :> FreshSlots(size))
               /\ stack = <<ScopeFrame(shape, 1)>>
       ELSE IF profile = "alloc"
       THEN /\ scopes = <<1>>
            /\ cells = (1 :> FreshSlots(AllocSlots))
            /\ stack = <<ScopeFrame("array", 1)>>
       ELSE /\ scopes = << >>
            /\ cells = << >>
            /\ stack = << >>
    /\ panicking = FALSE
    /\ returned = NoCall
    /\ cache = EMPTY
    /\ inserted = {}
    /\ \E debug_assertions \in (IF profile = "ref_cell" THEN BOOLEAN ELSE {TRUE}) :
           ref_cell = UnsafeRefCell_new(debug_assertions)

\* cache = cache.insert(DeBruijn(d))
FreeCacheInsert(de_bruijn) ==
    /\ profile = "free_cache"
    /\ cache' = insert(cache, de_bruijn)
    /\ inserted' = inserted \cup {de_bruijn}
    /\ returned' = Returned("insert", de_bruijn, insert(cache, de_bruijn))
    /\ UNCHANGED <<pc, objects, interned_null, interned_variables, scopes, cells, stack, panicking, profile, ref_cell>>

\* cache.contains(DeBruijn(d))
FreeCacheContains(de_bruijn) ==
    /\ profile = "free_cache"
    /\ returned' = Returned("contains", de_bruijn, contains(cache, de_bruijn))
    /\ UNCHANGED <<pc, objects, interned_null, interned_variables, scopes, cells, stack, panicking, profile, cache, inserted, ref_cell>>

\* Caches handed to union: empty, one index, the low half, the high half,
\* all but index 7, and UNKNOWN.
SampleCaches == { EMPTY, 2 ^ 3, 2 ^ 4 - 1, 2 ^ FreeCacheWidth - 2 ^ 4, 2 ^ 7 - 1, UNKNOWN }

\* cache | other and other | cache, as new_application combines the caches
\* of two fields.
FreeCacheUnion(other) ==
    /\ profile = "free_cache"
    /\ returned' = Returned("union", <<cache, other>>,
                            [left |-> union(cache, other), right |-> union(other, cache)])
    /\ UNCHANGED <<pc, objects, interned_null, interned_variables, scopes, cells, stack, panicking, profile, cache, inserted, ref_cell>>

\* What new_symbol decides from the length of the name alone: the error, or
\* the header's extra field.
symbol_extra(len) ==
    IF name_len(len) = Err THEN Err ELSE Ok(to_ne_bytes(name_len(len)[1]))

\* What new_application decides from the argument count alone: the error, or
\* the payload size and the header's extra field.
application_extra(n) ==
    IF payload_size(n) = Err THEN Err
    ELSE Ok([ size  |-> payload_size(n)[1],
              extra |-> to_ne_bytes(num_fields(payload_size(n)[1])) ])

\* The widths of usize the size computations are followed on.
UsizeWidths == {32, 64}

\* x is a value of a usize of that many bits (the model's integers reach
\* 2^47, below the limit of a 64-bit usize).
FitsUsize(usize_bits, x) ==
    IF usize_bits = 32 THEN x.hi < LimbBase
    ELSE (x.hi \div LimbBase) \div LimbBase < LimbBase

\* The length of a slice of bytes: a usize that is at most isize::MAX.
FitsSliceLen(usize_bits, len) ==
    IF usize_bits = 32 THEN len.hi < LimbBase \div 2
    ELSE FitsUsize(usize_bits, len)

\* size_of::<UnsafeHandle>(), the size of a pointer.
ptr_size(usize_bits) == usize_bits \div 8

\* payload_size where a pointer has usize_bits bits.
payload_size_on(usize_bits, num_arguments) ==
    IF ~FitsU32(num_arguments) THEN Err
    ELSE IF ~FitsU32(WideAdd(num_arguments, 1)) THEN Err
    ELSE IF ~FitsU32(WideMul(WideAdd(num_arguments, 1), ptr_size(usize_bits))) THEN Err
    ELSE Ok(WideMul(WideAdd(num_arguments, 1), ptr_size(usize_bits)))

\* The size `8 + payload_size` that Heap::alloc computes for the layout, with
\* whether the addition overflows the usize.
layout_size(usize_bits, size) ==
    [ overflows |-> ~FitsUsize(usize_bits, WideAdd(size, HeaderSize)),
      exact     |-> WideAdd(size, HeaderSize) ]

\* What new_symbol does with a name of len bytes: the error, or the call of
\* Heap::new with payload_size = name.len().
symbol_alloc(usize_bits, len) ==
    IF name_len(len) = Err THEN Err ELSE Ok(layout_size(usize_bits, len))

\* What new_application does with n arguments: the error, or the call of
\* Heap::new with payload_size as usize.
application_alloc(usize_bits, n) ==
    IF payload_size_on(usize_bits, n) = Err THEN Err
    ELSE Ok(layout_size(usize_bits, payload_size_on(usize_bits, n)[1]))

\* Argument counts around the limits of both pointer sizes: 2^29 - 1 and
\* 2^30 - 2 are the greatest counts accepted with 8-byte and 4-byte pointers.
AllocArgumentCounts ==
    ArgumentCounts \cup { Wide(LimbBase \div 4 - 1, LimbBase - 2), Wide(LimbBase \div 4 - 1, LimbBase - 1),
                          Wide(LimbBase \div 8, 0), U32(1) }

\* Name lengths around the limits of a slice and of a u32.
AllocLengths ==
    Lengths \cup { Wide(LimbBase \div 2 - 1, LimbBase - 1), Wide(LimbBase \div 2, 0),
                   [hi |-> LimbBase - 1, lo |-> LimbBase - 8] }

\* heap.new_symbol(into, name) up to the size Heap::alloc computes, on a
\* target of the given pointer width.
SymbolAlloc(usize_bits, len) ==
    /\ profile = "sizes"
    /\ FitsSliceLen(usize_bits, len)
    /\ returned' = Returned("new_symbol alloc", [usize_bits |-> usize_bits, len |-> len],
                            symbol_alloc(usize_bits, len))
    /\ UNCHANGED <<pc, objects, interned_null, interned_variables, scopes, cells, stack, panicking, profile, cache, inserted, ref_cell>>

\* heap.new_application(into, function, arguments) up to the size Heap::alloc
\* computes, for an iterator reporting n arguments.
ApplicationAlloc(usize_bits, n) ==
    /\ profile = "sizes"
    /\ FitsUsize(usize_bits, n)
    /\ returned' = Returned("new_application alloc", [usize_bits |-> usize_bits, len |-> n],
                            application_alloc(usize_bits, n))
    /\ UNCHANGED <<pc, objects, interned_null, interned_variables, scopes, cells, stack, panicking, profile, cache, inserted, ref_cell>>

SymbolHeader(len) ==
    /\ profile = "sizes"
    /\ returned' = Returned("new_symbol", len, symbol_extra(len))
    /\ UNCHANGED <<pc, objects, interned_null, interned_variables, scopes, cells, stack, panicking, profile, cache, inserted, ref_cell>>

ApplicationHeader(n) ==
    /\ profile = "sizes"
    /\ returned' = Returned("new_application", n, application_extra(n))
    /\ UNCHANGED <<pc, objects, interned_null, interned_variables, scopes, cells, stack, panicking, profile, cache, inserted, ref_cell>>

\* The initializer of new_application run on the unsafe handles of a function
\* and of a list of arguments.
ApplicationInitializer(function, arguments) ==
    /\ profile = "fields"
    /\ returned' = Returned("initializer", <<function>> \o arguments,
                            ApplicationObject(objects, <<function>> \o arguments))
    /\ UNCHANGED <<pc, objects, interned_null, interned_variables, scopes, cells, stack, panicking, profile, cache, inserted, ref_cell>>

\* De Bruijn indices (u32 values) around the end of the interned array, and
\* one whose low bits look like an interned index.
VariableIndices ==
    { U32(0), U32(INTERNED_VARIABLE_COUNT - 1), U32(INTERNED_VARIABLE_COUNT),
      U32(INTERNED_VARIABLE_COUNT + 1), Wide(1, 3), U32Max }

\* heap.interned_variable(de_bruijn)
InternedVariable(de_bruijn) ==
    /\ profile = "scope"
    /\ Running
    /\ returned' = Returned("interned_variable", de_bruijn, interned_variable(de_bruijn))
    /\ UNCHANGED <<pc, objects, interned_null, interned_variables, scopes, cells, stack, panicking, profile, cache, inserted, ref_cell>>

\* scope.iter() on the boxed scope of the running callback: the length the
\* iterator reports and the handles it yields.
ScopeIter ==
    /\ profile = "scope"
    /\ Running
    /\ stack # << >>
    /\ stack[Len(stack)].kind = "scope"
    /\ stack[Len(stack)].shape = "boxed"
    /\ returned' = Returned("iter", None,
                            [ len   |-> Len(iter(StackScope(stack[Len(stack)].scope))),
                              items |-> iter(StackScope(stack[Len(stack)].scope)) ])
    /\ UNCHANGED <<pc, objects, interned_null, interned_variables, scopes, cells, stack, panicking, profile, cache, inserted, ref_cell>>

\* The callback of with_new_array_scope::<N> looks at the handles it got.
ArrayScopeHandles ==
    /\ profile = "scope"
    /\ Running
    /\ stack # << >>
    /\ stack[Len(stack)].kind = "scope"
    /\ stack[Len(stack)].shape = "array"
    /\ returned' = Returned("with_new_array_scope", None,
                            scoped_handles(StackScope(stack[Len(stack)].scope),
                                           Len(cells[stack[Len(stack)].scope])))
    /\ UNCHANGED <<pc, objects, interned_null, interned_variables, scopes, cells, stack, panicking, profile, cache, inserted, ref_cell>>

\* scope.get(index) on the boxed scope of the running callback.
ScopeGet(index) ==
    /\ profile = "scope"
    /\ Running
    /\ stack # << >>
    /\ stack[Len(stack)].kind = "scope"
    /\ stack[Len(stack)].shape = "boxed"
    /\ returned' = Returned("get", index, get(StackScope(stack[Len(stack)].scope), index))
    /\ UNCHANGED <<pc, objects, interned_null, interned_variables, scopes, cells, stack, panicking, profile, cache, inserted, ref_cell>>

\* cell.borrow_mut() while any number of earlier guards is alive.  With debug
\* assertions a second borrow panics.  Without them a second borrow is
\* undefined behaviour: the build may hand out the aliasing guard or crash.
BorrowMut ==
    /\ profile = "ref_cell"
    /\ ~panicking
    /\ ref_cell.guards < MaxGuards
    /\ \/ /\ borrow_mut(ref_cell) # Err
          /\ ref_cell' = borrow_mut(ref_cell)[1]
          /\ returned' = Returned("borrow_mut", None, Ok(<<>>))
          /\ UNCHANGED panicking
       \/ /\ borrow_mut(ref_cell) = Err \/ (~ref_cell.debug_assertions /\ ref_cell.guards > 0)
          /\ panicking' = TRUE
          /\ returned' = Returned("borrow_mut", None, Err)
          /\ UNCHANGED ref_cell
    /\ UNCHANGED <<pc, objects, interned_null, interned_variables, scopes, cells, stack, profile, cache, inserted>>

\* A guard goes out of scope, in normal flow or while a panic unwinds.
DropRefMut ==
    /\ profile = "ref_cell"
    /\ ref_cell.guards > 0
    /\ ref_cell' = drop_ref_mut(ref_cell)
    /\ returned' = Returned("drop", None, None)
    /\ UNCHANGED <<pc, objects, interned_null, interned_variables, scopes, cells, stack, panicking, profile, cache, inserted>>

\* The panic of a borrow_mut is caught once it dropped every guard.
CatchUnwind ==
    /\ profile = "ref_cell"
    /\ panicking
    /\ ref_cell.guards = 0
    /\ panicking' = FALSE
    /\ returned' = NoCall
    /\ UNCHANGED <<pc, objects, interned_null, interned_variables, scopes, cells, stack, profile, cache, inserted, ref_cell>>

UnitNext ==
    \/ \E usize_bits \in UsizeWidths, len \in AllocLengths : SymbolAlloc(usize_bits, len)
    \/ \E usize_bits \in UsizeWidths, n \in AllocArgumentCounts : ApplicationAlloc(usize_bits, n)
    \/ \E into \in ScopedHandles, name \in Names \cup {NullName} :
           profile = "alloc" /\ NewSymbol(into, name)
    \/ \E into \in ScopedHandles, function \in ScopedHandles, arguments \in ArgumentLists :
           profile = "alloc" /\ NewApplication(into, function, arguments)
    \/ ScopeIter
    \/ ArrayScopeHandles
    \/ \E other \in SampleCaches : FreeCacheUnion(other)
    \/ \E de_bruijn \in VariableIndices : InternedVariable(de_bruijn)
    \/ \E into \in ScopedHandles, de_bruijn \in VariableIndices : NewVariable(into, de_bruijn)
    \/ BorrowMut
    \/ DropRefMut
    \/ CatchUnwind
    \/ \E index \in ScopeIndices : ScopeGet(index)
    \/ \E de_bruijn \in Indices : FreeCacheInsert(de_bruijn)
    \/ \E de_bruijn \in Indices : FreeCacheContains(de_bruijn)
    \/ \E len \in Lengths : SymbolHeader(len)
    \/ \E n \in ArgumentCounts : ApplicationHeader(n)
    \/ \E function \in SampleFunctions, arguments \in SampleArguments :
           ApplicationInitializer(function, arguments)

UnitSpec == UnitInit /\ [][UnitNext]_vars

----------------------------------------------------------------------------
(* Vocabulary of the properties.                                           *)

Top == stack[Len(stack)]
Pinned(objs, p) == "PINNED" \in objs[p].flags

\* The step leaves the innermost frame (its callback returned or panicked).
Leaves == stack # << >> /\ stack' = SubSeq(stack, 1, Len(stack) - 1)
\* The step enters a new frame.
Enters == Len(stack') = Len(stack) + 1 /\ SubSeq(stack', 1, Len(stack)) = stack

\* The with_pin frames on object p, innermost last.
PinsOn(p) == { k \in 1 .. Len(stack) : stack[k].kind = "pin" /\ stack[k].handle = p }

\* The scope pointers of the with_scope frames below position k, outermost first.
RECURSIVE ScopesOfFrames(_)
ScopesOfFrames(k) ==
    IF k = 0 THEN << >>
    ELSE IF stack[k].kind = "scope" THEN Append(ScopesOfFrames(k - 1), stack[k].scope)
    ELSE ScopesOfFrames(k - 1)

----------------------------------------------------------------------------
\* C1: for a with_pin call that found PINNED clear on entry, the flag is set
\* on the referent as long as the callback runs, and it is clear in the state
\* right after the call is left, by return and by unwinding alike.
C1_PinSetDuringClearAfter ==
    /\ [](\A k \in 1 .. Len(stack) :
            (stack[k].kind = "pin" /\ ~stack[k].already_pinned)
                => Pinned(objects, stack[k].handle))
    /\ [][(Leaves /\ Top.kind = "pin" /\ ~Top.already_pinned)
              => ~Pinned(objects', Top.handle)]_vars

\* A panic is unwinding and the next frame it leaves is a with_pin call that
\* pinned its referent itself.
C1_Witness ==
    /\ panicking
    /\ stack # << >>
    /\ Top.kind = "pin"
    /\ ~Top.already_pinned
    /\ Pinned(objects, Top.handle)

\* C2: a with_pin call entered on a pinned object leaves the flag set when it
\* is left; the flag is set throughout every nested call, and an object loses
\* the flag only in the step that leaves the outermost with_pin call on it.
C2_NestedPinKeepsFlag ==
    /\ [](\A k \in 1 .. Len(stack) :
            stack[k].kind = "pin" =>
                /\ Pinned(objects, stack[k].handle)
                /\ stack[k].already_pinned <=> (\E j \in PinsOn(stack[k].handle) : j < k))
    /\ [][/\ (Leaves /\ Top.kind = "pin" /\ Top.already_pinned)
                 => Pinned(objects', Top.handle)
          /\ \A p \in DOMAIN objects :
                 (Pinned(objects, p) /\ ~Pinned(objects', p))
                     => (Leaves /\ PinsOn(p) = {Len(stack)})]_vars

\* Three with_pin calls on the same object are nested in one another.
C2_Witness ==
    \E p \in DOMAIN objects :
        /\ Cardinality(PinsOn(p)) >= 3
        /\ Pinned(objects, p)
        /\ Top.kind = "pin" /\ Top.handle = p /\ Top.already_pinned

\* C3: the heap's scope stack always lists the slot arrays of the with_scope
\* calls in progress, in call order; a with_scope call pushes its slot array
\* when it is entered and pops exactly that entry when it is left, by return
\* and by unwinding alike.
C3_ScopeLifo ==
    /\ [](scopes = ScopesOfFrames(Len(stack)))
    /\ [][/\ (Enters /\ stack'[Len(stack')].kind = "scope")
                 => scopes' = Append(scopes, stack'[Len(stack')].scope)
          /\ (Leaves /\ Top.kind = "scope")
                 => /\ scopes # << >>
                    /\ scopes[Len(scopes)] = Top.scope
                    /\ scopes' = SubSeq(scopes, 1, Len(scopes) - 1)]_vars

\* A panic is unwinding through three nested scopes.
C3_Witness ==
    /\ panicking
    /\ Len(scopes) >= 3
    /\ Top.kind = "scope"

\* C4: in the step that opens a scope, array or boxed, of any size, every
\* slot of the new scope holds the handle interned_null() returns.
C4_FreshSlotsAreNull ==
    [][(Enters /\ stack'[Len(stack')].kind = "scope")
          => /\ stack'[Len(stack')].scope \in DOMAIN cells'
             /\ \A i \in 1 .. Len(cells'[stack'[Len(stack')].scope]) :
                    cells'[stack'[Len(stack')].scope][i] = interned_null']_vars

\* After heap setup an array scope and a boxed scope are open whose slots all
\* still hold the interned Null.
C4_Witness ==
    /\ pc = At("then")
    /\ \E j \in 1 .. Len(stack), k \in 1 .. Len(stack) :
          /\ stack[j].kind = "scope" /\ stack[j].shape = "array"
          /\ stack[k].kind = "scope" /\ stack[k].shape = "boxed"
          /\ cells[stack[j].scope] # << >> /\ cells[stack[k].scope] # << >>
          /\ \A i \in 1 .. Len(cells[stack[j].scope]) : cells[stack[j].scope][i] = interned_null
          /\ \A i \in 1 .. Len(cells[stack[k].scope]) : cells[stack[k].scope][i] = interned_null

----------------------------------------------------------------------------
(* Reachability and the free-variable cache of an object.                  *)

\* The objects the slots of the registered scopes point to.
Roots ==
    UNION { { cells[scopes[k]][i] : i \in 1 .. Len(cells[scopes[k]]) } : k \in 1 .. Len(scopes) }
        \cap DOMAIN objects

\* The handles stored in the payload of an application.
Children(p) ==
    IF objects[p].kind = "Application"
    THEN { objects[p].payload[i] : i \in 1 .. Len(objects[p].payload) }
    ELSE {}

RECURSIVE ReachableFrom(_)
\* The objects reachable from a set of objects through application payloads.
ReachableFrom(set) ==
    IF UNION { Children(p) : p \in set } \subseteq set THEN set
    ELSE ReachableFrom(set \cup UNION { Children(p) : p \in set })

RECURSIVE UnionOfCaches(_)
\* The union of the free caches of a set of objects.
UnionOfCaches(set) ==
    IF set = {} THEN EMPTY
    ELSE union(objects[CHOOSE p \in set : TRUE].free_cache,
               UnionOfCaches(set \ {CHOOSE p \in set : TRUE}))

\* What an object contributes to its own free cache: a variable, itself.
OwnContribution(p) ==
    IF objects[p].kind = "Variable"
    THEN insert(EMPTY, from_ne_bytes(objects[p].extra))
    ELSE EMPTY

\* The mutator can call a constructor: it holds a scoped handle to build into.
AllocationPoint == Running /\ ScopedHandles # {}

\* The interned objects, once heap setup is over.
Interned == {interned_null} \cup { interned_variables[i] : i \in 0 .. (INTERNED_VARIABLE_COUNT - 1) }

----------------------------------------------------------------------------
C7_FreeCacheIsUnion ==
    \A p \in DOMAIN objects :
        objects[p].free_cache = union(OwnContribution(p), UnionOfCaches(Children(p)))

\* C8, as claimed: the slot of every scoped handle the mutator holds lies in a
\* scope registered on the heap's scope stack.
C8_HandlesInRegisteredScopes ==
    \A h \in ScopedHandles :
        /\ h.space = "scope"
        /\ \E k \in 1 .. Len(scopes) : scopes[k] = h.at

\* C8, amended: the slot of every scoped handle the mutator holds lies in a
\* scope registered on the heap's scope stack, or is a payload field of an
\* application object whose PINNED flag is set.
C8_HandlesInScopesOrPinned ==
    \A h \in ScopedHandles :
        \/ /\ h.space = "scope"
           /\ \E k \in 1 .. Len(scopes) : scopes[k] = h.at
           /\ h.i < Len(cells[h.at])
        \/ /\ h.space = "payload"
           /\ h.at \in DOMAIN objects
           /\ objects[h.at].kind = "Application"
           /\ Pinned(objects, h.at)
           /\ h.i < Len(objects[h.at].payload)

\* The mutator holds the function handle and an argument handle borrowed
\* from a pinned application.
C8_Witness ==
    \E h \in ScopedHandles, g \in ScopedHandles :
        /\ h.space = "payload" /\ h.i = 0
        /\ g.space = "payload" /\ g.i > 0

\* C9: in the step new_symbol(into, name) returns Ok, pinning into and
\* calling as_symbol on the pinned handle yields Some(name), byte for byte.
C9_SymbolRoundTrip ==
    [][\A into \in ScopedHandles, name \in Names :
          NewSymbol(into, name) =>
              as_symbol(with_pin_entry(objects', as_unsafe_handle(objects', cells', into)),
                        as_unsafe_handle(objects', cells', into)) = Some(name)]_vars

\* A symbol the mutator built with a two-byte name is pinned.
C9_Witness ==
    /\ stack # << >>
    /\ Top.kind = "pin"
    /\ Top.handle # interned_null
    /\ objects[Top.handle].kind = "Symbol"
    /\ Len(objects[Top.handle].payload) = 2

\* C10: in the step new_variable(into, d) is called, for an interned and for
\* a not interned index d, into.as_variable() yields Some(d).
C10_VariableRoundTrip ==
    [][\A into \in ScopedHandles, de_bruijn \in DeBruijns :
          NewVariable(into, de_bruijn) =>
              as_variable(objects', cells', into) = Some(de_bruijn)]_vars

\* A slot holds a variable of index u32::MAX that the mutator built and
\* another slot the interned variable of index 7.
C10_Witness ==
    /\ Running
    /\ \E h \in ScopedHandles, g \in ScopedHandles :
           /\ as_variable(objects, cells, h) = Some(U32Max)
           /\ as_variable(objects, cells, g) = Some(U32(7))
           /\ as_unsafe_handle(objects, cells, g) = interned_variables[7]

----------------------------------------------------------------------------
\* C11: in the step new_application(into, function, arguments) returns Ok,
\* pinning into and calling as_application yields a function handle reading
\* the unsafe handle function held before the call, and an argument scope of
\* as many slots as there were arguments, slot i reading what argument i held.
C11_ApplicationRoundTrip ==
    [][DOMAIN objects' # DOMAIN objects =>
       \A into \in ScopedHandles, function \in ScopedHandles, arguments \in ArgumentLists :
          NewApplication(into, function, arguments) =>
              LET p == as_unsafe_handle(objects', cells', into)
                  pinned == with_pin_entry(objects', p)
                  got == as_application(pinned, p)
              IN  /\ got # None
                  /\ as_unsafe_handle(pinned, cells', got[1].function)
                         = as_unsafe_handle(objects, cells, function)
                  /\ DOMAIN got[1].arguments = 1 .. Len(arguments)
                  /\ \A i \in 1 .. Len(arguments) :
                         as_unsafe_handle(pinned, cells', got[1].arguments[i])
                             = as_unsafe_handle(objects, cells, arguments[i])]_vars

\* The mutator borrowed the fields of a pinned application of two arguments
\* that differ from one another.
C11_Witness ==
    /\ stack # << >>
    /\ Top.kind = "pin"
    /\ Top.borrowed
    /\ Len(objects[Top.handle].payload) = 3
    /\ objects[Top.handle].payload[2] # objects[Top.handle].payload[3]

----------------------------------------------------------------------------
\* Bit b of the byte x is set.
BitSet(x, b) == (x \div (2 ^ b)) % 2 = 1

RECURSIVE ByteOfBits(_)
\* The byte whose set bits are the members of a set of bit positions.
ByteOfBits(set) ==
    IF set = {} THEN 0
    ELSE 2 ^ (CHOOSE b \in set : TRUE) + ByteOfBits(set \ {CHOOSE b \in set : TRUE})

\* The bitwise OR of the free caches of a sequence of objects, bit by bit.
OrOfCaches(fields) ==
    ByteOfBits({ b \in 0 .. (FreeCacheWidth - 1) :
                   \E i \in 1 .. Len(fields) : BitSet(objects[fields[i]].free_cache, b) })

\* A symbol function applied to the variables of the given indices.
Example(a, b, c) ==
    <<interned_null, interned_variables[a], interned_variables[b], interned_variables[c]>>

\* C12: the free_cache the initializer of new_application gives the new
\* object is the bitwise OR of the free caches of the function and of every
\* argument, UNKNOWN if one of them is UNKNOWN; a symbol applied to the
\* variables 1, 3, 9 gets UNKNOWN, applied to the variables 1, 3, 5 exactly
\* the bits 1, 3 and 5.
C12_ApplicationFreeCache ==
    returned.call = "initializer" =>
        /\ returned.output.free_cache = OrOfCaches(returned.input)
        /\ (\E i \in 1 .. Len(returned.input) : objects[returned.input[i]].free_cache = UNKNOWN)
               => returned.output.free_cache = UNKNOWN
        /\ returned.input = Example(1, 3, 9) => returned.output.free_cache = UNKNOWN
        /\ returned.input = Example(1, 3, 5) =>
               /\ returned.output.free_cache = ByteOfBits({1, 3, 5})
               /\ \A d \in Indices :
                      contains(returned.output.free_cache, d) = Some(d \in {U32(1), U32(3), U32(5)})

\* The initializer ran on a symbol applied to the variables 1, 3 and 5.
C12_Witness ==
    /\ returned.call = "initializer"
    /\ returned.input = Example(1, 3, 5)
    /\ returned.output.kind = "Application"

----------------------------------------------------------------------------
\* C13: in the step new_variable(into, d) returns for an index d below 16, no
\* object is allocated and into reads the unsafe handle the heap keeps in
\* interned_variables[d], whatever the slot and however often this is done.
C13_InternedVariableIdentity ==
    [][(cells' # cells \/ objects' # objects) =>
       \A into \in ScopedHandles, de_bruijn \in DeBruijns :
          (Below(de_bruijn, INTERNED_VARIABLE_COUNT) /\ NewVariable(into, de_bruijn)) =>
              /\ DOMAIN objects' = DOMAIN objects
              /\ as_unsafe_handle(objects', cells', into) = interned_variables[AsIndex(de_bruijn)]
              /\ interned_variables' = interned_variables]_vars

\* Two slots read the interned variable 7 and the mutator allocated nothing.
C13_Witness ==
    /\ Running
    /\ Cardinality(DOMAIN objects) = SetupObjects
    /\ \E h \in ScopedHandles, g \in ScopedHandles :
           /\ h # g
           /\ as_unsafe_handle(objects, cells, h) = interned_variables[7]
           /\ as_unsafe_handle(objects, cells, g) = interned_variables[7]

----------------------------------------------------------------------------
\* C14: after EMPTY.insert(i) for an index i below 8, 7 included, contains
\* answers Some(true) for i and Some(false) for every other index.
C14_FreeCacheExactBelowEight ==
    (\E i \in Indices : inserted = {i} /\ Below(i, FreeCacheWidth)) =>
        /\ \A d \in Indices : contains(cache, d) = Some(d \in inserted)
        /\ returned.call = "contains" => returned.output = Some(returned.input \in inserted)

\* contains(7) was asked of EMPTY.insert(7).
C14_Witness ==
    /\ inserted = {U32(7)}
    /\ returned = Returned("contains", U32(7), Some(TRUE))

\* C15: EMPTY.insert(d) for an index d of 8 or more is UNKNOWN, the byte
\* 0xFF, and an UNKNOWN cache answers None to contains for every index.
C15_FreeCacheUnknown ==
    /\ (\E d \in Indices : inserted = {d} /\ ~Below(d, FreeCacheWidth)) =>
           /\ cache = UNKNOWN
           /\ cache = 255
    /\ cache = UNKNOWN =>
           /\ \A d \in Indices : contains(cache, d) = None
           /\ returned.call = "contains" => returned.output = None

\* contains was asked of EMPTY.insert(u32::MAX).
C15_Witness ==
    /\ inserted = {U32Max}
    /\ returned.call = "contains"
    /\ returned.output = None

\* C16: after any sequence of insert calls from EMPTY, a cache that is not
\* UNKNOWN got no index of 8 or more and answers contains with Some(true)
\* for exactly the inserted indices and Some(false) for all others.
C16_FreeCacheExact ==
    cache # UNKNOWN =>
        /\ \A d \in inserted : Below(d, FreeCacheWidth)
        /\ \A d \in Indices : contains(cache, d) = Some(d \in inserted)
        /\ returned.call = "contains" => returned.output = Some(returned.input \in inserted)

\* Three indices were inserted, the cache is not UNKNOWN, and contains
\* answered Some(false) for an index whose low bits are those of one of them.
C16_Witness ==
    /\ inserted = {U32(0), U32(3), U32(7)}
    /\ cache # UNKNOWN
    /\ returned = Returned("contains", Wide(1, 3), Some(FALSE))

----------------------------------------------------------------------------
\* C17: new_symbol returns the error exactly for a name longer than 2^32 - 1
\* bytes, and otherwise stores the length of the name in the extra field.
C17_NameTooLongBoundary ==
    (profile = "sizes" /\ returned.call = "new_symbol") =>
        /\ returned.output = Err <=> ~WideLeq(returned.input, U32Max)
        /\ returned.output # Err => from_ne_bytes(returned.output[1]) = returned.input

\* new_symbol took a name of 2^32 - 1 bytes.
C17_Witness ==
    /\ profile = "sizes"
    /\ returned.call = "new_symbol"
    /\ returned.input = U32Max
    /\ returned.output = Ok(<<255, 255, 255, 255>>)

\* C18: new_application with n arguments returns the error exactly when n,
\* n + 1 or (n + 1) * sizeof(handle) does not fit a u32; the greatest n whose
\* payload fits is accepted and its successor rejected; on success the field
\* count stored in extra is n + 1.
C18_TooManyArgumentsBoundary ==
    (profile = "sizes" /\ returned.call = "new_application") =>
        /\ returned.output = Err <=>
               \/ ~WideLeq(returned.input, U32Max)
               \/ ~WideLeq(WideAdd(returned.input, 1), U32Max)
               \/ ~WideLeq(WideMul(WideAdd(returned.input, 1), PTR_SIZE), U32Max)
        /\ returned.output # Err =>
               /\ from_ne_bytes(returned.output[1].extra) = WideAdd(returned.input, 1)
               /\ returned.output[1].size = WideMul(WideAdd(returned.input, 1), PTR_SIZE)
        /\ returned.input = LargestAccepted => returned.output # Err
        /\ returned.input = WideAdd(LargestAccepted, 1) => returned.output = Err

\* new_application took the greatest argument count whose payload fits.
C18_Witness ==
    /\ profile = "sizes"
    /\ returned.call = "new_application"
    /\ returned.input = LargestAccepted
    /\ WideLeq(WideMul(WideAdd(returned.input, 1), PTR_SIZE), U32Max)
    /\ ~WideLeq(WideMul(WideAdd(returned.input, 2), PTR_SIZE), U32Max)
    /\ returned.output # Err

----------------------------------------------------------------------------
\* C20: a step in which new_symbol or new_application returns its error
\* allocates nothing and changes no slot, so the target slot reads what it
\* read before, and leaves the scope stack and the interned handles alone.
C20_ErrorLeavesHeapUnchanged ==
    [][(returned' # returned /\ returned'.output = Err
           /\ returned'.call \in {"new_symbol", "new_application"}) =>
          /\ objects' = objects
          /\ cells' = cells
          /\ scopes' = scopes
          /\ stack' = stack
          /\ interned_null' = interned_null
          /\ interned_variables' = interned_variables
          /\ \A into \in ScopedHandles :
                 as_unsafe_handle(objects', cells', into) = as_unsafe_handle(objects, cells, into)]_vars

\* new_application returned its error, the mutator allocated nothing, and
\* the slots of the innermost scope, all fresh, read the interned Null.
C20_Witness ==
    /\ Running
    /\ returned = Returned("new_application", None, Err)
    /\ Cardinality(DOMAIN objects) = SetupObjects
    /\ stack # << >>
    /\ Top.kind = "scope"
    /\ Len(cells[Top.scope]) = MaxSlots
    /\ \A h \in ScopeHandles(Top.scope) : as_unsafe_handle(objects, cells, h) = interned_null

----------------------------------------------------------------------------
----------------------------------------------------------------------------
\* C22: the scope stack changes only by the push at the entry of with_scope
\* and the pop at its exit: the step that enters a scope frame appends exactly
\* the new scope, the step that leaves a scope frame removes exactly the last
\* entry, and every other step (the constructors, Heap::alloc, copy_from,
\* with_pin and its exit, as_application, the error returns, a panic) leaves
\* the scope stack as it was.
C22_ScopeStackOnlyPushPop ==
    [][/\ (Enters /\ stack'[Len(stack')].kind = "scope") =>
              scopes' = Append(scopes, stack'[Len(stack')].scope)
       /\ (Leaves /\ Top.kind = "scope") =>
              /\ scopes # << >>
              /\ scopes' = SubSeq(scopes, 1, Len(scopes) - 1)
       /\ (~(Enters /\ stack'[Len(stack')].kind = "scope") /\ ~(Leaves /\ Top.kind = "scope")) =>
              scopes' = scopes]_vars

\* Inside one scope an application was constructed, pinned and inspected, and
\* the scope stack still holds that one scope.
C22_Witness ==
    /\ Running
    /\ Len(scopes) = 1
    /\ returned.call = "new_application"
    /\ \E k \in 1 .. Len(stack) : stack[k].kind = "pin" /\ stack[k].borrowed

----------------------------------------------------------------------------
\* C23: nested scopes do not interfere.  Opening a scope changes no slot of
\* the scopes already open; closing a scope removes its own slots and changes
\* no slot of the scopes that stay open, so what was written to an outer slot
\* while the inner scope was open is still there; and a write through a handle
\* (new_variable, new_symbol, new_application, copy_from) changes no slot
\* other than the one the handle names, so writes to inner slots leave every
\* outer slot holding what it held.
C23_NestedScopesIndependent ==
    [][cells' # cells =>
          /\ (Enters /\ stack'[Len(stack')].kind = "scope") =>
                \A s \in DOMAIN cells : s \in DOMAIN cells' /\ cells'[s] = cells[s]
          /\ (Leaves /\ Top.kind = "scope") =>
                /\ DOMAIN cells' = DOMAIN cells \ {Top.scope}
                /\ \A s \in DOMAIN cells' : cells'[s] = cells[s]
          /\ stack' = stack =>
                \A into \in ScopedHandles :
                    (\/ \E de_bruijn \in DeBruijns : NewVariable(into, de_bruijn)
                     \/ \E name \in Names : NewSymbol(into, name)
                     \/ \E other \in ScopedHandles : CopyFrom(into, other)
                     \/ \E function \in ScopedHandles, arguments \in ArgumentLists :
                            NewApplication(into, function, arguments))
                    => /\ DOMAIN cells' = DOMAIN cells
                       /\ \A s \in DOMAIN cells : \A i \in DOMAIN cells[s] :
                              ScopeSlot(s, i - 1) # into => cells'[s][i] = cells[s][i]]_vars

\* Two scopes are open, one inside the other, and a slot of each was
\* overwritten: the outer slot and the inner slot both hold the interned
\* variable 7 instead of the Null they were created with.
C23_Witness ==
    /\ Running
    /\ \E k1 \in Frames("scope"), k2 \in Frames("scope") :
          /\ k1 < k2
          /\ cells[stack[k1].scope] = <<interned_variables[7]>>
          /\ cells[stack[k2].scope] = <<interned_variables[7]>>

----------------------------------------------------------------------------
\* C24: Scope::get(i) returns the handle of slot i exactly when i is below the
\* length of the scope and None for every i at or past it, and the call
\* changes nothing: no slot, no object, not the scope stack.  A boxed scope of
\* size 0 returns None for every index.
C24_GetInBoundsOnly ==
    /\ [](returned.call = "get" =>
            LET len == Len(cells[Top.scope])
                index == returned.input
            IN  /\ (index.hi = 0 /\ index.lo < len) =>
                       returned.output = Some(ScopeSlot(Top.scope, index.lo))
                /\ ~(index.hi = 0 /\ index.lo < len) => returned.output = None
                /\ len = 0 => returned.output = None)
    /\ [][returned'.call = "get" /\ returned' # returned =>
             UNCHANGED <<objects, cells, scopes, stack, interned_null, interned_variables>>]_vars

\* get returned None for index 0 of a boxed scope of size 0.
C24_Witness ==
    /\ stack # << >>
    /\ Top.kind = "scope" /\ Top.shape = "boxed"
    /\ cells[Top.scope] = << >>
    /\ returned = Returned("get", U32(0), None)

----------------------------------------------------------------------------
\* C25: in a build with debug assertions, UnsafeRefCell::borrow_mut called
\* while an earlier UnsafeRefMut of the same cell is alive panics and leaves
\* the cell as it was; called when every earlier guard was dropped it
\* succeeds; at most one guard is alive at any time, and the borrow flag is
\* back to unborrowed whenever no guard is alive.
C25_DebugBorrowMutExclusive ==
    /\ [](ref_cell.debug_assertions =>
            /\ ref_cell.guards \in {0, 1}
            /\ ref_cell.borrow = (IF ref_cell.guards = 0 THEN 0 ELSE -1))
    /\ [][(ref_cell.debug_assertions /\ returned'.call = "borrow_mut" /\ returned' # returned) =>
             IF ref_cell.guards > 0
             THEN /\ returned'.output = Err
                  /\ panicking'
                  /\ ref_cell' = ref_cell
             ELSE /\ returned'.output = Ok(<<>>)
                  /\ ~panicking'
                  /\ ref_cell'.guards = 1]_vars

\* A borrow_mut of the debug build panicked because a guard was alive.
C25_Witness ==
    /\ profile = "ref_cell"
    /\ ref_cell.debug_assertions
    /\ ref_cell.guards = 1
    /\ panicking
    /\ returned = Returned("borrow_mut", None, Err)

----------------------------------------------------------------------------
\* C27: interned_variable(DeBruijn(d)) returns the preallocated variable of
\* index d exactly when d is below 16 and None for every d from 16 on;
\* new_variable(h, d) with d below 16 (15 included) stores the interned
\* object into h and allocates nothing; with d from 16 on it allocates one
\* new Variable of index d, which is none of the interned objects, and stores
\* it into h.
C27_InternedBelowSixteen ==
    /\ [](returned.call = "interned_variable" =>
            returned.output =
                IF returned.input.hi = 0 /\ returned.input.lo < INTERNED_VARIABLE_COUNT
                THEN Some(interned_variables[returned.input.lo])
                ELSE None)
    /\ [][(objects' # objects \/ cells' # cells) =>
             \A into \in ScopedHandles, de_bruijn \in VariableIndices :
                 NewVariable(into, de_bruijn) =>
                     LET p == as_unsafe_handle(objects', cells', into)
                     IN  IF de_bruijn.hi = 0 /\ de_bruijn.lo < INTERNED_VARIABLE_COUNT
                         THEN /\ objects' = objects
                              /\ p = interned_variables[de_bruijn.lo]
                         ELSE /\ p \notin DOMAIN objects
                              /\ DOMAIN objects' = DOMAIN objects \cup {p}
                              /\ p \notin Interned
                              /\ objects'[p].kind = "Variable"
                              /\ from_ne_bytes(objects'[p].extra) = de_bruijn]_vars

\* One slot holds the interned variable 15 and the heap still had its 17
\* objects when it was stored; another slot holds a variable of index 16 that
\* was allocated for it.
C27_Witness ==
    /\ profile = "scope"
    /\ stack # << >>
    /\ Cardinality(DOMAIN objects) = SetupObjects + 1
    /\ \E h1 \in ScopedHandles, h2 \in ScopedHandles :
          /\ as_unsafe_handle(objects, cells, h1) = interned_variables[INTERNED_VARIABLE_COUNT - 1]
          /\ as_unsafe_handle(objects, cells, h2) \notin Interned
          /\ as_variable(objects, cells, h2) = Some(U32(INTERNED_VARIABLE_COUNT))
    /\ returned = Returned("interned_variable", U32(INTERNED_VARIABLE_COUNT), None)

----------------------------------------------------------------------------
\* C28: an application of zero arguments is valid.  new_application(into, f,
\* []) succeeds and builds an object whose field count is 1 and whose only
\* field holds the function f; as_application on it returns a function handle
\* that reads f and an argument scope of length 0, whose get(0) is None and
\* whose iter yields nothing.
C28_ZeroArgumentApplication ==
    [][DOMAIN objects' # DOMAIN objects =>
          \A into \in ScopedHandles, function \in ScopedHandles :
              NewApplication(into, function, << >>) =>
                  LET p == as_unsafe_handle(objects', cells', into)
                      f == as_unsafe_handle(objects, cells, function)
                  IN  /\ returned'.output = Ok(<<>>)
                      /\ p \notin DOMAIN objects
                      /\ objects'[p].kind = "Application"
                      /\ from_ne_bytes(objects'[p].extra) = U32(1)
                      /\ objects'[p].payload = <<f>>
                      /\ as_application(objects', p) # None
                      /\ as_unsafe_handle(objects', cells', as_application(objects', p)[1].function) = f
                      /\ Len(as_application(objects', p)[1].arguments) = 0
                      /\ get(as_application(objects', p)[1].arguments, U32(0)) = None
                      /\ iter(as_application(objects', p)[1].arguments) = << >>]_vars

\* An application of zero arguments is pinned and was inspected: the mutator
\* holds its function handle and nothing else from it.
C28_Witness ==
    /\ Running
    /\ \E k \in 1 .. Len(stack) :
          /\ stack[k].kind = "pin" /\ stack[k].borrowed
          /\ objects[stack[k].handle].kind = "Application"
          /\ Len(objects[stack[k].handle].payload) = 1
          /\ BorrowedHandles(stack[k].handle) = {PayloadSlot(stack[k].handle, 0)}

----------------------------------------------------------------------------
\* C29: inspection is kind-checked.  On every object a handle of the mutator
\* refers to, as_symbol returns Some only if it is a Symbol, as_variable only
\* if it is a Variable, as_application only if it is an Application, and None
\* otherwise; a slot holding the interned Null gives as_variable() = None and
\* as_application() = None.
C29_InspectionKindChecked ==
    pc.at = "then" =>
        \A h \in ScopedHandles :
            LET p == as_unsafe_handle(objects, cells, h)
            IN  /\ (as_symbol(objects, p) # None) = (objects[p].kind = "Symbol")
                /\ (as_variable(objects, cells, h) # None) = (objects[p].kind = "Variable")
                /\ (as_application(objects, p) # None) = (objects[p].kind = "Application")
                /\ p = interned_null =>
                      /\ as_symbol(objects, p) = Some(NullName)
                      /\ as_variable(objects, cells, h) = None
                      /\ as_application(objects, p) = None

\* The mutator holds a fresh slot with the interned Null, a slot with a
\* variable and a slot with an application.
C29_Witness ==
    /\ Running
    /\ \E h1 \in ScopedHandles, h2 \in ScopedHandles, h3 \in ScopedHandles :
          /\ as_unsafe_handle(objects, cells, h1) = interned_null
          /\ as_variable(objects, cells, h2) # None
          /\ as_application(objects, as_unsafe_handle(objects, cells, h3)) # None

----------------------------------------------------------------------------
\* C30: UNKNOWN is absorbing.  Inserting any De Bruijn index into an UNKNOWN
\* cache gives UNKNOWN, and the union of UNKNOWN with any cache, on either
\* side, is UNKNOWN: for the sample caches at every union call, and for every
\* 8-bit cache where a union is called on the cache that one insert of index
\* 8 made UNKNOWN.
C30_UnknownAbsorbing ==
    /\ [][(cache = UNKNOWN /\ returned'.call = "insert") =>
             /\ returned'.output = UNKNOWN
             /\ cache' = UNKNOWN]_vars
    /\ [](returned.call = "union" =>
            (UNKNOWN \in {returned.input[1], returned.input[2]} =>
                 /\ returned.output.left = UNKNOWN
                 /\ returned.output.right = UNKNOWN))
    /\ [](cache = UNKNOWN /\ returned.call = "union" /\ inserted = {U32(FreeCacheWidth)} =>
            \A x \in 0 .. UNKNOWN : union(cache, x) = UNKNOWN /\ union(x, cache) = UNKNOWN)

\* Index 3 was inserted into a cache that an earlier insert of index 8 had
\* made UNKNOWN, and the result is UNKNOWN.
C30_Witness ==
    /\ cache = UNKNOWN
    /\ U32(FreeCacheWidth) \in inserted
    /\ returned = Returned("insert", U32(3), UNKNOWN)

----------------------------------------------------------------------------
\* C31: indices below 8 can always be stored: an insert of an index d below 8
\* into a cache that is not UNKNOWN gives a cache that is not UNKNOWN and
\* that answers contains(d) with Some(true).
C31_SmallIndicesStorable ==
    [][(cache # UNKNOWN /\ returned'.call = "insert" /\ Below(returned'.input, FreeCacheWidth)) =>
          /\ cache' # UNKNOWN
          /\ contains(cache', returned'.input) = Some(TRUE)]_vars

----------------------------------------------------------------------------
\* C32 as stated: a.copy_from(b) modifies no object, whatever slot a is.
C32_CopyFromModifiesNoObject ==
    [][objects' # objects =>
          \A into \in ScopedHandles, other \in ScopedHandles : ~CopyFrom(into, other)]_vars

\* C32, made precise: after a.copy_from(b), a reads the unsafe handle b read
\* before; every slot other than a's, in a scope or in a payload, holds what
\* it held; no object is allocated; no object's kind, flags, free_cache,
\* extra or payload length changes; and an object changes at all only if a
\* is one of its payload fields, and then in that field alone.
\* a.copy_from(a) changes nothing.
C32_CopyFromFrame ==
    /\ [][(cells' # cells \/ objects' # objects) =>
             \A into \in ScopedHandles, other \in ScopedHandles :
                 CopyFrom(into, other) =>
                     /\ as_unsafe_handle(objects', cells', into) = as_unsafe_handle(objects, cells, other)
                     /\ \A h \in ScopedHandles \ {into} :
                            as_unsafe_handle(objects', cells', h) = as_unsafe_handle(objects, cells, h)
                     /\ DOMAIN cells' = DOMAIN cells
                     /\ into.space = "payload" => cells' = cells
                     /\ DOMAIN objects' = DOMAIN objects
                     /\ \A p \in DOMAIN objects :
                            /\ objects'[p].kind = objects[p].kind
                            /\ objects'[p].flags = objects[p].flags
                            /\ objects'[p].free_cache = objects[p].free_cache
                            /\ objects'[p].extra = objects[p].extra
                            /\ Len(objects'[p].payload) = Len(objects[p].payload)
                            /\ (into.space = "scope" \/ into.at # p) => objects'[p] = objects[p]
                            /\ \A i \in DOMAIN objects[p].payload :
                                   PayloadSlot(p, i - 1) # into =>
                                       objects'[p].payload[i] = objects[p].payload[i]]_vars
    /\ [](pc.at = "then" =>
            \A a \in ScopedHandles :
                /\ SetCell(cells, a, as_unsafe_handle(objects, cells, a)) = cells
                /\ SetField(objects, a, as_unsafe_handle(objects, cells, a)) = objects)

\* The function field of a pinned application refers to the application
\* itself: a copy_from through the borrowed function handle put it there.
C32_Witness ==
    /\ Running
    /\ \E k \in 1 .. Len(stack) :
          /\ stack[k].kind = "pin" /\ stack[k].borrowed
          /\ objects[stack[k].handle].payload[1] = stack[k].handle

----------------------------------------------------------------------------
\* C33: Scope::iter yields exactly len scoped handles, the i-th referring to
\* slot i, the slot get(i) refers to, and the length it reports before the
\* traversal is that number; the N handles with_new_array_scope gives to its
\* callback refer to the slots 0 .. N-1 in order and are pairwise distinct.
C33_IterInSlotOrder ==
    /\ returned.call = "iter" =>
           /\ returned.output.len = Len(cells[Top.scope])
           /\ Len(returned.output.items) = Len(cells[Top.scope])
           /\ \A i \in 1 .. Len(cells[Top.scope]) :
                  /\ returned.output.items[i] = ScopeSlot(Top.scope, i - 1)
                  /\ get(StackScope(Top.scope), U32(i - 1)) = Some(returned.output.items[i])
    /\ returned.call = "with_new_array_scope" =>
           /\ Len(returned.output) = Len(cells[Top.scope])
           /\ \A i \in 1 .. Len(returned.output) :
                  /\ returned.output[i] = ScopeSlot(Top.scope, i - 1)
                  /\ \A j \in 1 .. Len(returned.output) :
                         i # j => returned.output[i] # returned.output[j]

\* iter was called on a boxed scope of three slots, one of them overwritten.
C33_Witness ==
    /\ returned.call = "iter"
    /\ returned.output.len = UnitSlots
    /\ \E i \in 1 .. UnitSlots : cells[Top.scope][i] # interned_null

----------------------------------------------------------------------------
\* C34: in every state and for every object, the PINNED flag is set if and
\* only if at least one with_pin call entered on that object has not been
\* left yet, whatever the nesting and whichever slots the calls went through,
\* the interned objects included; and an object comes out of its allocation
\* with PINNED and MARKED clear.
C34_PinnedIffPinCallActive ==
    /\ [](\A p \in DOMAIN objects : Pinned(objects, p) <=> PinsOn(p) # {})
    /\ [][DOMAIN objects' # DOMAIN objects =>
             \A p \in DOMAIN objects' \ DOMAIN objects :
                 /\ "PINNED" \notin objects'[p].flags
                 /\ "MARKED" \notin objects'[p].flags]_vars

\* The interned Null is pinned by two nested with_pin calls made while two
\* scopes are open, and the interned variable 7, held by a slot, is not pinned.
C34_Witness ==
    /\ Running
    /\ Cardinality(PinsOn(interned_null)) >= 2
    /\ Cardinality(Frames("scope")) >= 2
    /\ Pinned(objects, interned_null)
    /\ \E h \in ScopedHandles : as_unsafe_handle(objects, cells, h) = interned_variables[7]
    /\ ~Pinned(objects, interned_variables[7])

----------------------------------------------------------------------------
\* C35: with_pin pins and unpins the object its slot referred to at entry.
\* The pinned handle of a call refers to that object until the call is left,
\* whatever the callback stores into the slot meanwhile; the object is PINNED
\* all that time; and the only steps that change the flags of an object are
\* the entry and the exit of a with_pin call on that very object, so an
\* object the slot is re-pointed to is neither pinned nor unpinned by the call.
C35_PinFollowsObjectNotSlot ==
    /\ [](\A k \in 1 .. Len(stack) :
            stack[k].kind = "pin" =>
                /\ stack[k].handle \in DOMAIN objects
                /\ Pinned(objects, stack[k].handle))
    /\ [][/\ \A k \in 1 .. Len(stack) :
                 (k <= Len(stack') /\ stack[k].kind = "pin") =>
                     stack'[k].kind = "pin" /\ stack'[k].handle = stack[k].handle
          /\ \A p \in DOMAIN objects :
                 objects'[p].flags # objects[p].flags =>
                     \/ Enters /\ stack'[Len(stack')].kind = "pin" /\ stack'[Len(stack')].handle = p
                     \/ Leaves /\ Top.kind = "pin" /\ Top.handle = p]_vars

\* Inside with_pin on a slot that held the interned Null, the callback stored
\* a new symbol into every slot: no slot refers to Null any more, Null is
\* still the pinned object and PINNED, and the new symbol is not.
C35_Witness ==
    /\ Running
    /\ stack # << >>
    /\ Top.kind = "pin"
    /\ Top.handle = interned_null
    /\ Pinned(objects, interned_null)
    /\ ScopedHandles # {}
    /\ \A h \in ScopedHandles :
          /\ as_unsafe_handle(objects, cells, h) \notin Interned
          /\ as_symbol(objects, as_unsafe_handle(objects, cells, h)) # None
          /\ ~Pinned(objects, as_unsafe_handle(objects, cells, h))

----------------------------------------------------------------------------
\* C36: with_scope holds the exclusive borrow of the scope stack for the push
\* alone and for the pop alone: no guard is alive and the borrow flag is
\* clear in every state between two calls, so in particular while any
\* callback runs; and no with_scope call, at any nesting depth, entered or
\* left by return or by unwinding, panics on an already borrowed stack.
C36_ScopeStackBorrowedForPushPopOnly ==
    /\ [](ref_cell.guards = 0 /\ ref_cell.borrow = 0)
    /\ [](returned # Returned("borrow_mut", None, Err))
    /\ [][(Enters /\ stack'[Len(stack')].kind = "scope") =>
             /\ borrow_mut(ref_cell) # Err
             /\ panicking' = panicking]_vars

\* Three scopes are open inside one another and the innermost callback runs.
C36_Witness ==
    /\ Running
    /\ ref_cell.debug_assertions
    /\ Cardinality(Frames("scope")) = NestingScopes
    /\ Len(scopes) = NestingScopes
    /\ Top.kind = "scope"

----------------------------------------------------------------------------
\* C37: in a step where new_application(into, function, arguments) returns Ok
\* and into is the slot of the function or of one of the arguments, the slot
\* into afterwards refers to a block that did not exist before, that block is
\* a completely initialized application (kind, field count, one payload entry
\* per field), and its payload holds, in order, the unsafe handles the
\* function slot and the argument slots held before the call, each of them an
\* object that existed before the call.
C37_InputsReadBeforeIntoWritten ==
    [][DOMAIN objects' # DOMAIN objects =>
       \A into \in ScopedHandles, function \in ScopedHandles, arguments \in ArgumentLists :
          ( /\ NewApplication(into, function, arguments)
            /\ (into = function \/ \E i \in 1 .. Len(arguments) : arguments[i] = into) ) =>
              LET p == as_unsafe_handle(objects', cells', into)
              IN  /\ p \notin DOMAIN objects
                  /\ p \in DOMAIN objects'
                  /\ objects'[p].kind = "Application"
                  /\ objects'[p].flags = NoFlags
                  /\ objects'[p].extra = to_ne_bytes(U32(Len(arguments) + 1))
                  /\ Len(objects'[p].payload) = Len(arguments) + 1
                  /\ objects'[p].payload[1] = as_unsafe_handle(objects, cells, function)
                  /\ \A i \in 1 .. Len(arguments) :
                         objects'[p].payload[i + 1] = as_unsafe_handle(objects, cells, arguments[i])
                  /\ \A k \in 1 .. Len(arguments) + 1 :
                         objects'[p].payload[k] \in DOMAIN objects
                  /\ \A q \in DOMAIN objects : objects'[q] = objects[q]]_vars

\* new_application returned Ok in a mutator whose only scoped handle is the
\* one slot of its one scope, so into, the function and both arguments were
\* that slot; the slot held an interned variable before the call and refers
\* to the new application of three fields after it.
C37_Witness ==
    /\ Running
    /\ returned = Returned("new_application", None, Ok(<<>>))
    /\ Len(stack) = 1
    /\ stack[1].kind = "scope"
    /\ Len(cells[stack[1].scope]) = 1
    /\ LET p == cells[stack[1].scope][1]
       IN  /\ p \notin Interned
           /\ objects[p].kind = "Application"
           /\ Len(objects[p].payload) = 3
           /\ objects[p].payload[1] # interned_null
           /\ \A k \in 1 .. 3 : objects[p].payload[k] = objects[p].payload[1]

----------------------------------------------------------------------------
\* C38: in every step in which new_symbol (with any name, "Null" included),
\* new_variable with an index of 16 or more, or new_application allocates,
\* the handle the slot into holds afterwards is unequal (UnsafeHandle::eq
\* compares addresses) to the handle of every object allocated before in the
\* heap, interned_null() and the interned variables included, and every
\* earlier object is still what it was.
C38_AllocatedHandlesFresh ==
    [][(cells' # cells \/ objects' # objects) =>
       \A into \in ScopedHandles :
          ( \/ \E name \in Names \cup {NullName} : NewSymbol(into, name)
            \/ \E de_bruijn \in VariableIndices :
                  /\ ~Below(de_bruijn, INTERNED_VARIABLE_COUNT)
                  /\ NewVariable(into, de_bruijn)
            \/ \E function \in ScopedHandles, arguments \in ArgumentLists :
                  NewApplication(into, function, arguments) ) =>
              LET p == as_unsafe_handle(objects', cells', into)
              IN  /\ \A q \in DOMAIN objects : p # q
                  /\ p # interned_null
                  /\ \A i \in 0 .. (INTERNED_VARIABLE_COUNT - 1) : p # interned_variables[i]
                  /\ DOMAIN objects' = DOMAIN objects \cup {p}
                  /\ \A q \in DOMAIN objects : objects'[q] = objects[q]]_vars

\* Two new_symbol(.., "Null") calls went into the two slots of the scope: the
\* slots hold two symbols named like the interned null, at handles unequal to
\* one another and to interned_null().
C38_Witness ==
    /\ profile = "alloc"
    /\ returned = Returned("new_symbol", None, Ok(<<>>))
    /\ LET p == cells[1][1]
           q == cells[1][2]
       IN  /\ p # q
           /\ p # interned_null /\ q # interned_null
           /\ p \notin Interned /\ q \notin Interned
           /\ objects[p].kind = "Symbol" /\ objects[q].kind = "Symbol"
           /\ objects[p].payload = NullName /\ objects[q].payload = NullName
           /\ objects[interned_null].payload = NullName

----------------------------------------------------------------------------
\* C39: whenever new_symbol accepts a name or new_application accepts an
\* argument count, on a target whose usize has 32 or 64 bits, the addition
\* 8 + payload_size of Heap::alloc does not overflow the usize.
C39_AllocSizeNeverOverflows ==
    ( /\ returned.call \in {"new_symbol alloc", "new_application alloc"}
      /\ returned.output # Err ) => ~returned.output[1].overflows

\* C39, usize of 64 bits and every symbol: no accepted name and no accepted
\* argument count makes 8 + payload_size overflow a 64-bit usize, and no
\* accepted name makes it overflow a 32-bit usize.
C39_AllocSizeFitsWideUsize ==
    ( /\ returned.call \in {"new_symbol alloc", "new_application alloc"}
      /\ returned.output # Err
      /\ (returned.input.usize_bits = 64 \/ returned.call = "new_symbol alloc") ) =>
        /\ ~returned.output[1].overflows
        /\ WideLeq(returned.output[1].exact, Wide(LimbBase, HeaderSize - 1))

\* new_application accepted 2^29 - 1 arguments on a 64-bit target: the
\* greatest payload, 2^32 - 8 bytes, and a layout of 2^32 bytes.
C39_Witness ==
    /\ returned.call = "new_application alloc"
    /\ returned.input.usize_bits = 64
    /\ returned.input.len = LargestAccepted
    /\ returned.output = Ok([overflows |-> FALSE, exact |-> Wide(LimbBase, 0)])

----------------------------------------------------------------------------
\* C40: the two steps of a with_pin call that are its own, the entry up to
\* the call of the callback and the deferred block after it, change nothing
\* but the PINNED bit of the referent: the referent keeps its MARKED flag,
\* kind, free_cache, extra and payload, every other object keeps its whole
\* header and payload, no object is added or removed, and every scope slot
\* and the scope stack stay as they were.
C40_WithPinTouchesOnlyPinnedBit ==
    [][Len(stack') # Len(stack) =>
       \A p \in DOMAIN objects :
          ( \/ (Enters /\ stack'[Len(stack')] = PinFrame(p, Pinned(objects, p)))
            \/ (Leaves /\ stack[Len(stack)].kind = "pin" /\ stack[Len(stack)].handle = p) ) =>
              /\ DOMAIN objects' = DOMAIN objects
              /\ objects'[p].flags \ {"PINNED"} = objects[p].flags \ {"PINNED"}
              /\ ("MARKED" \in objects'[p].flags) = ("MARKED" \in objects[p].flags)
              /\ objects'[p].kind = objects[p].kind
              /\ objects'[p].free_cache = objects[p].free_cache
              /\ objects'[p].extra = objects[p].extra
              /\ objects'[p].payload = objects[p].payload
              /\ \A q \in DOMAIN objects \ {p} : objects'[q] = objects[q]
              /\ cells' = cells
              /\ scopes' = scopes]_vars

\* The callback of a with_pin call runs on an application allocated by the
\* mutator: the call set its PINNED flag, and the slots of the open scope
\* still refer to it.
C40_Witness ==
    /\ Running
    /\ stack # << >>
    /\ Top.kind = "pin"
    /\ ~Top.already_pinned
    /\ ~Top.borrowed
    /\ Top.handle \notin Interned
    /\ objects[Top.handle].kind = "Application"
    /\ objects[Top.handle].flags = {"PINNED"}
    /\ \E h \in ScopedHandles : as_unsafe_handle(objects, cells, h) = Top.handle

====
